---- MODULE Spec2Model ----
(***************************************************************************)
(* A model of the process, scheduler, trap and spinlock core of the xv6    *)
(* port for the Raspberry Pi 2 (source/spinlock.c holds spinlock.c and     *)
(* proc.c, source/trap.c, source/sysproc.c, source/exception.S, vm.c).     *)
(*                                                                         *)
(* The machine has one CPU.  A kernel path runs from a trap entry to the   *)
(* next swtch() or to the return to user mode; the timer interrupt is      *)
(* taken only while the I bit of the CPSR is clear.  Every C function is   *)
(* an operator from a kernel state record to a kernel state record, and    *)
(* every action applies the operators of one kernel path to the state.     *)
(***************************************************************************)
EXTENDS Integers, FiniteSets, Sequences, TLC

(* ---------------------------- bounds ----------------------------------- *)

\* Number of slots of the process table (param.h is not part of the sources).
NPROC == 3
\* No pid above MaxPid is handed out: fork is not started with a free slot
\* once next_pid has passed it.
MaxPid == 3
\* The tick counter is kept modulo TicksMod (a narrow u_int32).
TicksMod == 2
\* Largest argument of sys_sleep.
MaxSleep == 1
\* Deepest nesting of pushcli that the sequences of push/pop calls reach.
MaxCli == 6
\* Longest sequence of push/pop calls run from one state.
MaxWord == 6
\* Page frames the allocator manages.
NFrames == 8
\* Page frames in use at one time while single functions of vm.c are called.
VmFrames == 4
\* Largest size of a process, in pages.
MaxPages == 2
\* Page directories of user address spaces in use at one time.
NDirs == 2

(* ------------------------- program constants --------------------------- *)

PGSIZE == 4096
USER_SPSR == 16
NULL == 0
ticks_chan == 100

SYS_fork == 1
SYS_exit == 2
SYS_wait == 3
SYS_kill == 6
SYS_sleep == 13

Slots == 1..NPROC
LockNames == {"ptable", "ticks"}

VARIABLES
    proc,        \* ptable.proc[]: the process control blocks
    vm,          \* the address space each pgdir pointer refers to
    kctx,        \* the kernel thread of each slot: position, saved context, locals
    lock,        \* ptable.lock and ticks_lock
    cpus,        \* cpus[0]: ncli, irq_enabled, proc (curr_proc)
    cpsr_I,      \* PSR_DISABLE_IRQ bit of the CPSR
    ticks,       \* the tick counter
    next_pid,
    init_proc,
    first_sched,
    first_proc,  \* the static of fork_return
    sctx,        \* the scheduler thread: position and loop index
    kmem,        \* pages handed out by kalloc and not yet given back, by use
    panicked,    \* "none", or the message of the panic that halted the kernel
    mmu,         \* physical page frames and the page tables stored in them
    intc         \* the interrupt controller's pending registers and handle_irq

vars == <<proc, vm, kctx, lock, cpus, cpsr_I, ticks, next_pid, init_proc,
          first_sched, first_proc, sctx, kmem, panicked, mmu, intc>>

(* ------------------------------ records -------------------------------- *)

ZeroTf == [r0 |-> 0, sp |-> 0, pc |-> 0, spsr |-> 0]

ZeroProc == [sz |-> 0, pgdir |-> NULL, kstack |-> NULL, state |-> "UNUSED",
             pid |-> 0, parent |-> NULL, tf |-> ZeroTf, channel |-> 0,
             killed |-> 0]

NoVm == [live |-> FALSE, l2 |-> 0, pages |-> 0]

NoCtx == [pc |-> "none", ctx |-> "none", irq_enabled |-> 0, ticks0 |-> 0,
          n |-> 0, np |-> 0]

Frames == 1..NFrames
Dirs == 1..NDirs

\* Physical memory with every frame on the allocator's free list and no
\* page directory built.  use: "free" or "used"; tab: the words of a frame
\* that holds a page table, by index, zero words left out (frame 0 is the
\* kernel's static directory); data: what a frame that holds user memory
\* contains; pgdir, sz: the directory pointer and the size kept by each
\* owner of an address space; own: the address space a frame was taken
\* from the allocator for; avail: the length of the free list as seen by
\* the call in progress; r, pte, bad: the value a function returns, the
\* pointer walkpgdir returns, and what went wrong, while a call runs; call:
\* the call about to run, with its arguments; res: what the last call
\* returned.
NoMmu == [use |-> [f \in Frames |-> "free"],
          tab |-> [f \in 1..(NFrames + 1) |-> <<>>],
          data |-> [f \in Frames |-> "junk"],
          own |-> [f \in Frames |-> 0],
          pgdir |-> [d \in Dirs |-> 0],
          sz |-> [d \in Dirs |-> 0],
          avail |-> 0,
          r |-> 0,
          pte |-> [tab |-> 0, idx |-> 0],
          bad |-> {},
          call |-> [op |-> "none", dir |-> 0, x |-> 0, y |-> 0, z |-> 0,
                    b |-> 0],
          res |-> [op |-> "none", ret |-> 0, bad |-> {}],
          halt |-> "none"]

\* The interrupt controller with nothing pending and handle_irq not running.
\* pending0, pending1, basic: the bits set in irq_pending[0], irq_pending[1]
\* and irq_basic_pending; pc: where handle_irq stands; is_timer_irq: the
\* caller's flag; serviced: whether the call in progress has called
\* timer3intr.
NoIntc == [pending0 |-> {}, pending1 |-> {}, basic |-> {}, pc |-> "idle",
           is_timer_irq |-> 0, serviced |-> FALSE]

\* The kernel state as one record, threaded through the operators below.
St == [proc |-> proc, vm |-> vm, kctx |-> kctx, lock |-> lock, cpus |-> cpus,
       cpsr_I |-> cpsr_I, ticks |-> ticks, next_pid |-> next_pid,
       init_proc |-> init_proc, first_sched |-> first_sched,
       first_proc |-> first_proc, sctx |-> sctx, kmem |-> kmem,
       panicked |-> panicked]

Commit(s) ==
    /\ proc' = s.proc
    /\ vm' = s.vm
    /\ kctx' = s.kctx
    /\ lock' = s.lock
    /\ cpus' = s.cpus
    /\ cpsr_I' = s.cpsr_I
    /\ ticks' = s.ticks
    /\ next_pid' = s.next_pid
    /\ init_proc' = s.init_proc
    /\ first_sched' = s.first_sched
    /\ first_proc' = s.first_proc
    /\ sctx' = s.sctx
    /\ kmem' = s.kmem
    /\ panicked' = s.panicked
    /\ mmu' = mmu
    /\ intc' = intc

Ok(s) == s.panicked = "none"

panic(s, msg) == IF Ok(s) THEN [s EXCEPT !.panicked = msg] ELSE s

curr_proc(s) == s.cpus.proc

(* ----------------------------- spinlock.c ------------------------------ *)

holding(s, lk) == s.lock[lk].locked = 1 /\ s.lock[lk].cpu = 1

\* pushcli counts but leaves the IRQs as they are.
pushcli_nocli(s) ==
    IF ~Ok(s) THEN s
    ELSE [s EXCEPT !.cpus.ncli = @ + 1,
                   !.cpus.irq_enabled = IF s.cpus.ncli = 0
                                        THEN (IF s.cpsr_I THEN 0 ELSE 1)
                                        ELSE @]

pushcli(s) ==
    IF ~Ok(s) THEN s
    ELSE [s EXCEPT !.cpsr_I = TRUE,
                   !.cpus.ncli = @ + 1,
                   !.cpus.irq_enabled =
                       IF s.cpus.ncli = 0
                       THEN (IF s.cpsr_I THEN 0 ELSE 1)
                       ELSE @]

\* popcli enables the IRQs whenever the count is back at 0.
popcli_sti(s) ==
    IF ~Ok(s) THEN s
    ELSE IF ~s.cpsr_I THEN panic(s, "popcli - interruptible")
    ELSE IF s.cpus.ncli - 1 < 0
         THEN panic([s EXCEPT !.cpus.ncli = @ - 1], "popcli")
    ELSE [s EXCEPT !.cpus.ncli = @ - 1,
                   !.cpsr_I = IF s.cpus.ncli - 1 = 0 THEN FALSE ELSE @]

popcli(s) ==
    IF ~Ok(s) THEN s
    ELSE IF ~s.cpsr_I THEN panic(s, "popcli - interruptible")
    ELSE IF s.cpus.ncli - 1 < 0
         THEN panic([s EXCEPT !.cpus.ncli = @ - 1], "popcli")
    ELSE [s EXCEPT !.cpus.ncli = @ - 1,
                   !.cpsr_I = IF s.cpus.ncli - 1 = 0 /\ s.cpus.irq_enabled # 0
                              THEN FALSE ELSE @]

\* acquire takes a lock that is already held once more, without a panic.
acquire_again(s, lk) ==
    IF ~Ok(s) THEN s
    ELSE [pushcli(s) EXCEPT !.lock[lk] = [locked |-> 1, cpu |-> 1]]

acquire(s, lk) ==
    IF ~Ok(s) THEN s
    ELSE LET s1 == pushcli(s)
         IN  IF holding(s1, lk) THEN panic(s1, "acquire")
             ELSE [s1 EXCEPT !.lock[lk] = [locked |-> 1, cpu |-> 1]]

\* release gives the lock back and leaves out popcli.
release_nopop(s, lk) ==
    IF ~Ok(s) THEN s
    ELSE IF ~holding(s, lk) THEN panic(s, "release")
    ELSE [s EXCEPT !.lock[lk] = [locked |-> 0, cpu |-> 0]]

release(s, lk) ==
    IF ~Ok(s) THEN s
    ELSE IF ~holding(s, lk) THEN panic(s, "release")
    ELSE popcli([s EXCEPT !.lock[lk] = [locked |-> 0, cpu |-> 0]])

(* --------------------------- page allocator ---------------------------- *)

\* kalloc() succeeded: one more page of the given use is out.
kalloc(s, use) == [s EXCEPT !.kmem[use] = @ + 1]

kfree(s, use, n) == [s EXCEPT !.kmem[use] = @ - n]

(* -------------------------------- vm.c --------------------------------- *)

\* Pages a user image of sz bytes spans: the iterations of
\* for(i = 0; i < sz; i += PGSIZE).
NPages(sz) == (sz + PGSIZE - 1) \div PGSIZE

switchuvm(s, p) ==
    IF ~Ok(s) THEN s
    ELSE LET s1 == pushcli(s)
         IN  IF s1.proc[p].pgdir = NULL THEN panic(s1, "switchuvm: no pgdir")
             ELSE popcli(s1)

\* freevm of the directory that slot p points to.
freevm(s, p) ==
    IF ~Ok(s) THEN s
    ELSE IF s.proc[p].pgdir = NULL THEN panic(s, "freevm: no pgdir")
    ELSE LET v == s.vm[p]
             s1 == kfree(s, "user", v.pages)
             s2 == kfree(s1, "l2", v.l2)
             s3 == kfree(s2, "pgdir", 1)
         IN  [s3 EXCEPT !.vm[p] = NoVm]

\* new_proc->pgdir = copyuvm(curr_proc->pgdir, curr_proc->sz) with the
\* allocation that fails, if any: "pgdir" (setupkvm), "mem" (a user page),
\* "l2" (the page table page walkpgdir allocates inside mappages).
copyuvm(s, np, fail) ==
    IF ~Ok(s) THEN s
    ELSE LET c == curr_proc(s)
             n == NPages(s.proc[c].sz)
             src == s.vm[c]
         IN  IF fail = "pgdir" THEN [s EXCEPT !.proc[np].pgdir = NULL]
             ELSE IF n = 0
                  THEN [kalloc(s, "pgdir") EXCEPT
                            !.proc[np].pgdir = 1,
                            !.vm[np] = [live |-> TRUE, l2 |-> 0, pages |-> 0]]
             ELSE IF src.l2 = 0 THEN panic(s, "copyuvm: pte should exist")
             ELSE IF src.pages < n THEN panic(s, "copyuvm: page not present")
             ELSE IF fail = "mem"
                  \* bad: freevm(d) gives back what was mapped so far and d
                  THEN [s EXCEPT !.proc[np].pgdir = NULL]
             ELSE IF fail = "l2"
                  \* mem was allocated but is not mapped: freevm(d) misses it
                  THEN [kalloc(s, "user") EXCEPT !.proc[np].pgdir = NULL]
             ELSE LET s1 == kalloc(s, "pgdir")
                      s2 == kalloc(s1, "l2")
                      s3 == [s2 EXCEPT !.kmem["user"] = @ + n]
                  IN  [s3 EXCEPT !.proc[np].pgdir = 1,
                                 !.vm[np] = [live |-> TRUE, l2 |-> 1,
                                             pages |-> n]]

(* ------------------------------- proc.c -------------------------------- *)

FirstSlot(S) == CHOOSE p \in S : \A q \in S : p <= q

\* allocproc up to the release in spawn_proc: the slot found is EMBRYO and
\* has its pid.  The slot is left in kctx[c].np (0: no slot); for userinit,
\* which runs on the boot thread, in sctx.p.
allocproc_claim(s) ==
    IF ~Ok(s) THEN s
    ELSE LET s1 == acquire(s, "ptable")
             free == {p \in Slots : s1.proc[p].state = "UNUSED"}
         IN  IF ~Ok(s1) THEN s1
             ELSE IF free = {} THEN release(s1, "ptable")
             ELSE LET p == FirstSlot(free)
                  IN  release([s1 EXCEPT !.proc[p].state = "EMBRYO",
                                         !.proc[p].pid = s1.next_pid,
                                         !.next_pid = @ + 1], "ptable")

ClaimedSlot(s0, s1) ==
    LET new == {p \in Slots : s0.proc[p].state = "UNUSED"
                              /\ s1.proc[p].state = "EMBRYO"}
    IN  IF new = {} THEN 0 ELSE FirstSlot(new)

\* The rest of spawn_proc: the kernel stack, the trapframe and the context
\* that starts the process in fork_return.  ok = FALSE: kalloc returned 0.
spawn_proc(s, p, ok) ==
    IF ~Ok(s) THEN s
    ELSE IF ~ok THEN [s EXCEPT !.proc[p].state = "UNUSED"]
    ELSE [kalloc(s, "kstack") EXCEPT
              !.proc[p].kstack = 1,
              !.proc[p].tf = ZeroTf,
              !.kctx[p] = [NoCtx EXCEPT !.pc = "fork_return",
                                        !.ctx = "fork_return"]]

\* wakeup_1 marks the sleepers RUNNING instead of RUNNABLE.
wakeup_1_running(s, chan) ==
    IF ~Ok(s) THEN s
    ELSE [s EXCEPT !.proc =
             [p \in Slots |->
                 IF s.proc[p].state = "SLEEPING" /\ s.proc[p].channel = chan
                 THEN [s.proc[p] EXCEPT !.state = "RUNNING"]
                 ELSE s.proc[p]]]

\* wakeup_1 stops at the first sleeper it finds on the channel.
wakeup_1_first(s, chan) ==
    IF ~Ok(s) THEN s
    ELSE LET on == {p \in Slots : s.proc[p].state = "SLEEPING"
                                  /\ s.proc[p].channel = chan}
         IN  IF on = {} THEN s
             ELSE [s EXCEPT !.proc[FirstSlot(on)].state = "RUNNABLE"]

wakeup_1(s, chan) ==
    IF ~Ok(s) THEN s
    ELSE [s EXCEPT !.proc =
             [p \in Slots |->
                 IF s.proc[p].state = "SLEEPING" /\ s.proc[p].channel = chan
                 THEN [s.proc[p] EXCEPT !.state = "RUNNABLE"]
                 ELSE s.proc[p]]]

wakeup(s, chan) == release(wakeup_1(acquire(s, "ptable"), chan), "ptable")

\* sched() called from `from` (yield, sleep or exit): swtch to the scheduler,
\* which goes on after its own swtch: switchkvm, curr_proc = 0, p++.
sched(s, from) ==
    IF ~Ok(s) THEN s
    ELSE LET c == curr_proc(s)
         IN  IF ~holding(s, "ptable") THEN panic(s, "sched ptable.lock")
             ELSE IF s.cpus.ncli # 1 THEN panic(s, "sched locks")
             ELSE IF s.proc[c].state = "RUNNING" THEN panic(s, "sched running")
             ELSE IF ~s.cpsr_I THEN panic(s, "sched interruptible")
             ELSE [s EXCEPT !.kctx[c].ctx = from,
                            !.kctx[c].irq_enabled = s.cpus.irq_enabled,
                            !.cpus.proc = 0,
                            !.sctx = [pc |-> "scan", p |-> c + 1]]

\* sched() goes on after swtch without restoring the flag it saved.
sched_return_keep(s) ==
    IF ~Ok(s) THEN s
    ELSE LET c == curr_proc(s)
         IN  [s EXCEPT !.kctx[c].ctx = "none",
                       !.kctx[c].irq_enabled = 0]

\* The process is switched to again: swtch returns in sched, which restores
\* the flag it saved.
sched_return(s) ==
    IF ~Ok(s) THEN s
    ELSE LET c == curr_proc(s)
         IN  [s EXCEPT !.cpus.irq_enabled = s.kctx[c].irq_enabled,
                       !.kctx[c].ctx = "none",
                       !.kctx[c].irq_enabled = 0]

\* yield calls sched with the process still RUNNING.
yield_running(s) ==
    IF ~Ok(s) THEN s
    ELSE sched(acquire(s, "ptable"), "yield")

yield(s) ==
    IF ~Ok(s) THEN s
    ELSE LET s1 == acquire(s, "ptable")
         IN  IF ~Ok(s1) THEN s1
             ELSE sched([s1 EXCEPT !.proc[curr_proc(s1)].state = "RUNNABLE"],
                        "yield")

\* sleep(chan, lk) up to its sched().
sleep(s, chan, lk) ==
    IF ~Ok(s) THEN s
    ELSE IF curr_proc(s) = 0 THEN panic(s, "sleep")
    ELSE LET s1 == IF lk # "ptable"
                   THEN release(acquire(s, "ptable"), lk)
                   ELSE s
         IN  IF ~Ok(s1) THEN s1
             ELSE sched([s1 EXCEPT !.proc[curr_proc(s1)].channel = chan,
                                   !.proc[curr_proc(s1)].state = "SLEEPING"],
                        "sleep")

\* sleep() goes on without the tidy-up of the channel.
sleep_return_keep(s, lk) ==
    IF ~Ok(s) THEN s
    ELSE IF lk # "ptable"
         THEN acquire(release(s, "ptable"), lk)
         ELSE s

\* sleep(chan, lk) after its sched() has returned.
sleep_return(s, lk) ==
    IF ~Ok(s) THEN s
    ELSE LET s1 == [s EXCEPT !.proc[curr_proc(s)].channel = 0]
         IN  IF lk # "ptable"
             THEN acquire(release(s1, "ptable"), lk)
             ELSE s1

\* exit without the test for init.
exit_allowed(s) == FALSE

\* if (curr_proc == init_proc) in exit.
exit_forbidden(s) == curr_proc(s) = s.init_proc

\* exit leaves the children with the exiting process.
reparent_none(s, c) == s

\* The loop of exit that passes the children of c to init_proc, and wakes
\* init_proc when one of them is a ZOMBIE.
reparent(s, c) ==
    IF ~Ok(s) THEN s
    ELSE LET kids == {p \in Slots : s.proc[p].parent = c}
             s1 == [s EXCEPT !.proc =
                      [p \in Slots |->
                         IF p \in kids
                         THEN [s.proc[p] EXCEPT !.parent = s.init_proc]
                         ELSE s.proc[p]]]
         IN  IF \E p \in kids : s.proc[p].state = "ZOMBIE"
             THEN wakeup_1(s1, s1.init_proc)
             ELSE s1

exit(s) ==
    IF ~Ok(s) THEN s
    ELSE LET c == curr_proc(s)
         IN  IF exit_forbidden(s) THEN panic(s, "init exiting")
             ELSE LET s1 == acquire(s, "ptable")
                      s2 == wakeup_1(s1, s1.proc[c].parent)
                      s3 == reparent(s2, c)
                  IN  IF ~Ok(s3) THEN s3
                      ELSE sched([s3 EXCEPT !.proc[c].state = "ZOMBIE",
                                            !.kctx[c].pc = "exit"], "exit")

\* kill(pid); the value returned is kill_ret.
kill_hit(s, pid) == {p \in Slots : s.proc[p].pid = pid}

\* kill marks the sleeper RUNNING instead of RUNNABLE.
kill_wake_running(st) == IF st = "SLEEPING" THEN "RUNNING" ELSE st

\* kill makes every process that is not running RUNNABLE, a ZOMBIE too.
kill_wake_zombie(st) == IF st \in {"SLEEPING", "ZOMBIE"} THEN "RUNNABLE" ELSE st

\* kill leaves a sleeper asleep.
kill_wake_none(st) == st

\* if (p->state == SLEEPING) p->state = RUNNABLE, in kill.
kill_wake(st) == IF st = "SLEEPING" THEN "RUNNABLE" ELSE st

kill(s, pid) ==
    IF ~Ok(s) THEN s
    ELSE LET s1 == acquire(s, "ptable")
             hit == kill_hit(s1, pid)
         IN  IF ~Ok(s1) THEN s1
             ELSE IF hit = {} THEN release(s1, "ptable")
             ELSE LET p == FirstSlot(hit)
                  IN  release([s1 EXCEPT !.proc[p].killed = 1,
                                         !.proc[p].state = kill_wake(@)],
                              "ptable")

kill_ret(s, pid) == IF kill_hit(s, pid) = {} THEN 0 - 1 ELSE 0

(* ------------------------ return to user mode -------------------------- *)

\* movs pc, lr in trapret / _backtouser: CPSR <- SPSR of the trapframe.
\* The return to user mode keeps the I bit that the trap entry set.
ret_user_masked(s) ==
    IF ~Ok(s) THEN s
    ELSE [s EXCEPT !.kctx[curr_proc(s)].pc = "user"]

ret_user(s) ==
    IF ~Ok(s) THEN s
    ELSE [s EXCEPT !.cpsr_I = FALSE, !.kctx[curr_proc(s)].pc = "user"]

\* syscall() has stored the value in r0; handle_syscall then looks at killed.
syscall_ret(s, val) ==
    IF ~Ok(s) THEN s
    ELSE LET c == curr_proc(s)
             s1 == [s EXCEPT !.proc[c].tf.r0 = val,
                             !.kctx[c].ticks0 = 0, !.kctx[c].n = 0,
                             !.kctx[c].np = 0]
         IN  IF s1.proc[c].killed # 0 THEN exit(s1) ELSE ret_user(s1)

(* ------------------------------- wait ---------------------------------- *)

\* wait gives up only when the caller has no children.
wait_fail_nokids(havekids, killed) == ~havekids

\* if(!has_children || curr_proc->killed) in wait: no point in waiting.
wait_fail(havekids, killed) == ~havekids \/ killed # 0

\* One pass of the for(;;) loop of wait, ptable.lock held.
wait_scan(s) ==
    IF ~Ok(s) THEN s
    ELSE LET c == curr_proc(s)
             kids == {p \in Slots : s.proc[p].parent = c}
             zs == {p \in kids : s.proc[p].state = "ZOMBIE"}
         IN  IF zs # {}
             THEN LET p == FirstSlot(zs)
                      pid == s.proc[p].pid
                      s1 == kfree([s EXCEPT !.proc[p].kstack = NULL,
                                            !.proc[p].tf = ZeroTf,
                                            !.kctx[p] = NoCtx], "kstack", 1)
                      s2 == freevm(s1, p)
                      s3 == [s2 EXCEPT !.proc[p].state = "UNUSED",
                                       !.proc[p].pid = 0,
                                       !.proc[p].parent = NULL,
                                       !.proc[p].killed = 0]
                  IN  syscall_ret(release(s3, "ptable"), pid)
             ELSE IF wait_fail(kids # {}, s.proc[c].killed)
                  THEN syscall_ret(release(s, "ptable"), 0 - 1)
             ELSE sleep([s EXCEPT !.kctx[c].pc = "wait"], c, "ptable")

(* ----------------------------- sys_sleep ------------------------------- *)

\* ticks - ticks0 in the width of the counter.
Elapsed(s, c) == (s.ticks - s.kctx[c].ticks0) % TicksMod

\* One test of while(ticks - ticks0 < n), ticks_lock held.  The process
\* either returns or has decided to sleep and is about to call sleep().
sys_sleep_loop(s) ==
    IF ~Ok(s) THEN s
    ELSE LET c == curr_proc(s)
         IN  IF Elapsed(s, c) < s.kctx[c].n
             THEN IF s.proc[c].killed # 0
                  THEN syscall_ret(release(s, "ticks"), 0 - 1)
                  ELSE [s EXCEPT !.kctx[c].pc = "sys_sleep"]
             ELSE syscall_ret(release(s, "ticks"), 0)

(* ------------------------------- trap.c -------------------------------- *)

\* timer3intr (timer.c is not part of the sources): the tick under ticks_lock.
timer3intr(s) ==
    IF ~Ok(s) THEN s
    ELSE LET s1 == acquire(s, "ticks")
             s2 == IF Ok(s1)
                   THEN [s1 EXCEPT !.ticks = (@ + 1) % TicksMod]
                   ELSE s1
         IN  release(wakeup(s2, ticks_chan), "ticks")

\* The end of trap() for a trap that is not a syscall, after the handler;
\* user: the SPSR of the trapframe says user mode.
trap_tail(s, user, is_timer_irq) ==
    IF ~Ok(s) THEN s
    ELSE LET c == curr_proc(s)
         IN  IF c = 0 THEN [s EXCEPT !.cpsr_I = FALSE]
             ELSE IF s.proc[c].killed # 0 /\ user THEN exit(s)
             ELSE IF s.proc[c].state = "RUNNING" /\ is_timer_irq THEN yield(s)
             ELSE [s EXCEPT !.cpsr_I = FALSE]

\* trap() after yield() has returned.
trap_after_yield(s, user) ==
    IF ~Ok(s) THEN s
    ELSE LET c == curr_proc(s)
         IN  IF s.proc[c].killed # 0 /\ user THEN exit(s)
             ELSE [s EXCEPT !.cpsr_I = FALSE]

\* What a process does when the scheduler has switched to its saved context.
resume(s) ==
    LET c == curr_proc(s)
        k == s.kctx[c]
    IN  CASE k.ctx = "fork_return" ->
               LET s1 == release(s, "ptable")
               IN  IF ~Ok(s1) THEN s1
                   ELSE [s1 EXCEPT !.first_proc = 0,
                                   !.kctx[c].ctx = "none",
                                   !.kctx[c].pc = "trapret"]
          [] k.ctx = "yield" ->
               trap_after_yield(release(sched_return(s), "ptable"),
                                k.pc = "user")
          [] k.ctx = "sleep" /\ k.pc = "wait" ->
               wait_scan(sleep_return(sched_return(s), "ptable"))
          [] k.ctx = "sleep" /\ k.pc = "sys_sleep" ->
               sys_sleep_loop(sleep_return(sched_return(s), "ticks"))
          [] OTHER -> panic(sched_return(s), "zombie exit")

(* ------------------------------ actions -------------------------------- *)

Init ==
    /\ proc = [p \in Slots |-> ZeroProc]
    /\ vm = [p \in Slots |-> NoVm]
    /\ kctx = [p \in Slots |-> NoCtx]
    /\ lock = [l \in LockNames |-> [locked |-> 0, cpu |-> 0]]
    /\ cpus = [ncli |-> 0, irq_enabled |-> 0, proc |-> 0]
    /\ cpsr_I \in BOOLEAN
    /\ ticks = 0
    /\ next_pid = 1
    /\ init_proc = 0
    /\ first_sched = 1
    /\ first_proc = 1
    /\ sctx = [pc |-> "userinit", p |-> 0]
    /\ kmem = [kstack |-> 0, pgdir |-> 0, l2 |-> 0, user |-> 0]
    /\ panicked = "none"
    /\ mmu = NoMmu
    /\ intc = NoIntc

Running(p) ==
    /\ panicked = "none"
    /\ sctx.pc = "switched"
    /\ cpus.proc = p
    /\ kctx[p].ctx = "none"

\* userinit: allocproc up to the release of ptable.lock.
UserInitAlloc ==
    /\ panicked = "none"
    /\ sctx.pc = "userinit"
    /\ LET s1 == allocproc_claim(St)
       IN  Commit([s1 EXCEPT !.sctx = [pc |-> "userinit2",
                                       p |-> ClaimedSlot(St, s1)]])

\* The rest of userinit.  fail names the allocation that fails.  A null
\* pointer is written through when allocproc or the kalloc of inituvm
\* returns 0: address 0 is unmapped in the kernel, the data abort ends in
\* handle_bad_trap's panic("trap").
userinit(s, fail) ==
    LET p == s.sctx.p
        s1 == spawn_proc(s, p, fail # "kstack")
    IN  IF fail = "kstack" THEN panic(s1, "trap")
        ELSE IF fail = "pgdir"
             THEN panic([s1 EXCEPT !.init_proc = p],
                        "userinit: out of memory?")
        ELSE IF fail = "mem"
             THEN panic([kalloc(s1, "pgdir") EXCEPT !.init_proc = p,
                                !.proc[p].pgdir = 1,
                                !.vm[p] = [live |-> TRUE, l2 |-> 0, pages |-> 0]],
                        "trap")
        ELSE LET s2 == kalloc(kalloc(s1, "pgdir"), "user")
                 s3 == IF fail = "l2"
                       THEN [s2 EXCEPT !.vm[p] = [live |-> TRUE, l2 |-> 0,
                                                  pages |-> 0]]
                       ELSE [kalloc(s2, "l2") EXCEPT
                                !.vm[p] = [live |-> TRUE, l2 |-> 1, pages |-> 1]]
             IN  [s3 EXCEPT !.init_proc = p,
                            !.proc[p].pgdir = 1,
                            !.proc[p].sz = PGSIZE,
                            !.proc[p].tf = [ZeroTf EXCEPT !.spsr = USER_SPSR,
                                                          !.sp = PGSIZE,
                                                          !.pc = 0],
                            !.proc[p].state = "RUNNABLE",
                            !.sctx = [pc |-> "sti", p |-> 0]]

UserInitFinish ==
    /\ panicked = "none"
    /\ sctx.pc = "userinit2"
    /\ \E fail \in {"none", "kstack", "pgdir", "mem", "l2"} :
           Commit(userinit(St, fail))

\* scheduler(): the top of the for(;;) loop.
SchedSti ==
    /\ panicked = "none"
    /\ sctx.pc = "sti"
    /\ Commit([St EXCEPT !.first_sched = 0,
                         !.cpsr_I = IF first_sched # 0 THEN @ ELSE FALSE,
                         !.sctx = [pc |-> "acquire", p |-> 0]])

SchedAcquire ==
    /\ panicked = "none"
    /\ sctx.pc = "acquire"
    /\ Commit([acquire(St, "ptable") EXCEPT !.sctx = [pc |-> "scan", p |-> 1]])

\* The scan starts over from the first slot after every switch.
Runnable_restart(from) == {p \in Slots : proc[p].state = "RUNNABLE"}

\* for(p = ...; p < &ptable.proc[NPROC]; p++) if(p->state != RUNNABLE) continue
Runnable(from) == {p \in Slots : p >= from /\ proc[p].state = "RUNNABLE"}

\* The inner loop finds the next RUNNABLE slot and switches to it.
dispatch(s, p) ==
    LET s1 == switchuvm([s EXCEPT !.cpus.proc = p], p)
    IN  IF ~Ok(s1) THEN s1
        ELSE [s1 EXCEPT !.proc[p].state = "RUNNING",
                        !.sctx = [pc |-> "switched", p |-> p]]

SchedDispatch ==
    /\ panicked = "none"
    /\ sctx.pc = "scan"
    /\ Runnable(sctx.p) # {}
    /\ Commit(dispatch(St, FirstSlot(Runnable(sctx.p))))

\* The inner loop reaches the end of the table.
SchedRelease ==
    /\ panicked = "none"
    /\ sctx.pc = "scan"
    /\ Runnable(sctx.p) = {}
    /\ Commit([release(St, "ptable") EXCEPT !.sctx = [pc |-> "sti", p |-> 0]])

\* The process the scheduler switched to goes on where it called swtch.
Resume ==
    /\ panicked = "none"
    /\ sctx.pc = "switched"
    /\ cpus.proc # 0
    /\ kctx[cpus.proc].ctx # "none"
    /\ Commit(resume(St))

\* fork_return returns to trapret, which enters user mode.
TrapRet ==
    \E p \in Slots :
        /\ Running(p)
        /\ kctx[p].pc = "trapret"
        /\ Commit(ret_user(St))

\* movs pc, lr at the end of _backtouser and trapret: the registers user mode
\* runs with are those of the frame, CPSR <- SPSR, PC <- the frame's pc.
backtouser(tf) ==
    [r0 |-> tf.r0, sp |-> tf.sp, pc |-> tf.pc, cpsr |-> tf.spsr]

\* The IRQ exception taken in user mode and do_irq: LR_irq is the address of
\* the instruction to go on with plus 4, SPSR_irq the CPSR; r0 is put under
\* the stack of IRQ mode, the banked r13 of user mode stays where it is.
do_irq(cpu) ==
    [r0 |-> cpu.r0, sp |-> cpu.sp, lr |-> cpu.pc + 4, spsr |-> cpu.cpsr]

\* _switchtosvc pushes the LR of IRQ mode as it is.
switchtosvc_lr(e) ==
    [r0 |-> e.r0, sp |-> e.sp, pc |-> e.lr, spsr |-> e.spsr]

\* _switchtosvc: mrs r1, spsr; sub r2, lr, #4; push {r2}; push {r1}; ...;
\* LDMFD r1, {r0-r4}; STMFD sp, {r0, ...}; STMFD r0, {r13}^.
switchtosvc(e) ==
    [r0 |-> e.r0, sp |-> e.sp, pc |-> e.lr - 4, spsr |-> e.spsr]

\* A timer interrupt: trap() with T_IRQ, handle_irq finds the timer pending.
\* Taken in user mode, the trap entry builds the frame at the top of the
\* kernel stack of the process out of the registers user mode ran with.
trap_irq(s) ==
    LET c == curr_proc(s)
        user == c # 0 /\ s.kctx[c].pc = "user"
        s0 == IF user
              THEN [s EXCEPT !.proc[c].tf = switchtosvc(do_irq(backtouser(@)))]
              ELSE s
        s1 == timer3intr([s0 EXCEPT !.cpsr_I = TRUE])
    IN  trap_tail(s1, user, TRUE)

TimerIRQ ==
    /\ panicked = "none"
    /\ ~cpsr_I
    /\ sctx.pc \notin {"userinit", "userinit2"}
    /\ sctx.pc = "switched" => /\ cpus.proc # 0
                               /\ kctx[cpus.proc].ctx = "none"
    /\ Commit(trap_irq(St))

handle_bad_trap_ignore(s, user) == s

\* An undefined instruction, prefetch abort or data abort in user mode.
handle_bad_trap(s, user) ==
    IF curr_proc(s) = 0 \/ ~user THEN panic(s, "trap")
    ELSE [s EXCEPT !.proc[curr_proc(s)].killed = 1]

BadTrap ==
    \E p \in Slots :
        /\ Running(p)
        /\ kctx[p].pc = "user"
        /\ Commit(trap_tail(handle_bad_trap([St EXCEPT !.cpsr_I = TRUE], TRUE),
                            TRUE, FALSE))

\* swi: the trap entry and handle_syscall up to the call of syscall().
handle_syscall(s, num) ==
    LET c == curr_proc(s)
        s1 == [s EXCEPT !.cpsr_I = TRUE]
    IN  IF s1.proc[c].killed # 0 THEN exit(s1)
        ELSE [s1 EXCEPT !.proc[c].tf.r0 = num, !.kctx[c].pc = "syscall"]

SysTrap ==
    \E p \in Slots, num \in {SYS_fork, SYS_exit, SYS_wait, SYS_kill, SYS_sleep} :
        /\ Running(p)
        /\ kctx[p].pc = "user"
        /\ vm[p].pages > 0
        \* pids are capped: no fork once MaxPid is out, unless the table is full
        /\ num = SYS_fork =>
               \/ next_pid <= MaxPid
               \/ \A q \in Slots : proc[q].state # "UNUSED"
        /\ Commit(handle_syscall(St, num))

InSyscall(p, num) ==
    /\ Running(p)
    /\ kctx[p].pc = "syscall"
    /\ proc[p].tf.r0 = num

\* fork: allocproc up to the release of ptable.lock.
fork_alloc(s) ==
    LET c == curr_proc(s)
        s1 == allocproc_claim(s)
        np == ClaimedSlot(s, s1)
    IN  IF ~Ok(s1) THEN s1
        ELSE IF np = 0 THEN syscall_ret(s1, 0 - 1)
        ELSE [s1 EXCEPT !.kctx[c].pc = "fork", !.kctx[c].np = np]

SysFork ==
    \E p \in Slots :
        /\ InSyscall(p, SYS_fork)
        /\ Commit(fork_alloc(St))

\* fork copies the trapframe and leaves the caller's r0 in the child.
child_tf_same(tf) == tf

\* *new_proc->tf = *curr_proc->tf; new_proc->tf->r0 = 0.
child_tf(tf) == [tf EXCEPT !.r0 = 0]

\* The failure branch of fork forgets the kernel stack of the slot.
fork_undo_leak(s, np) ==
    [s EXCEPT !.proc[np].state = "UNUSED", !.kctx[np] = NoCtx]

\* The failure branch of fork after copyuvm returned 0.
fork_undo(s, np) ==
    [kfree(s, "kstack", 1) EXCEPT !.proc[np].kstack = NULL,
                                  !.proc[np].state = "UNUSED",
                                  !.kctx[np] = NoCtx]

\* The rest of fork: spawn_proc's kernel stack, copyuvm, the copy of the
\* parent's state.  fail names the allocation that fails.
fork(s, fail) ==
    LET c == curr_proc(s)
        np == s.kctx[c].np
        s1 == spawn_proc(s, np, fail # "kstack")
    IN  IF fail = "kstack" THEN syscall_ret(s1, 0 - 1)
        ELSE LET s2 == copyuvm(s1, np, fail)
             IN  IF ~Ok(s2) THEN s2
                 ELSE IF s2.proc[np].pgdir = NULL
                      THEN syscall_ret(fork_undo(s2, np), 0 - 1)
                 ELSE syscall_ret(
                          [s2 EXCEPT !.proc[np].sz = s2.proc[c].sz,
                                     !.proc[np].parent = c,
                                     !.proc[np].tf = child_tf(s2.proc[c].tf),
                                     !.proc[np].state = "RUNNABLE"],
                          s2.proc[np].pid)

ForkFinish ==
    \E p \in Slots, fail \in {"none", "kstack", "pgdir", "mem", "l2"} :
        /\ Running(p)
        /\ kctx[p].pc = "fork"
        /\ Commit(fork(St, fail))

SysExit ==
    \E p \in Slots :
        /\ InSyscall(p, SYS_exit)
        /\ Commit(exit(St))

\* wait(): acquire ptable.lock and the first pass of the loop.
wait(s) == wait_scan(acquire(s, "ptable"))

SysWait ==
    \E p \in Slots :
        /\ InSyscall(p, SYS_wait)
        /\ Commit(wait(St))

sys_kill(s, pid) == syscall_ret(kill(s, pid), kill_ret(s, pid))

SysKill ==
    \E p \in Slots, pid \in 0..MaxPid :
        /\ InSyscall(p, SYS_kill)
        /\ Commit(sys_kill(St, pid))

sys_sleep(s, n) ==
    LET c == curr_proc(s)
        s1 == acquire(s, "ticks")
    IN  IF ~Ok(s1) THEN s1
        ELSE sys_sleep_loop([s1 EXCEPT !.kctx[c].ticks0 = s1.ticks,
                                       !.kctx[c].n = n])

SysSleep ==
    \E p \in Slots, n \in 1..MaxSleep :
        /\ InSyscall(p, SYS_sleep)
        /\ Commit(sys_sleep(St, n))

\* sleep(&ticks, &ticks_lock) in the loop of sys_sleep, up to its sched().
SysSleepBlock ==
    \E p \in Slots :
        /\ Running(p)
        /\ kctx[p].pc = "sys_sleep"
        /\ Commit(sleep(St, ticks_chan, "ticks"))

Next ==
    \/ UserInitAlloc
    \/ UserInitFinish
    \/ SchedSti
    \/ SchedAcquire
    \/ SchedDispatch
    \/ SchedRelease
    \/ Resume
    \/ TrapRet
    \/ TimerIRQ
    \/ BadTrap
    \/ SysTrap
    \/ SysFork
    \/ ForkFinish
    \/ SysExit
    \/ SysWait
    \/ SysKill
    \/ SysSleep
    \/ SysSleepBlock

Spec == Init /\ [][Next]_vars

\* The steps of code that runs in kernel mode: the CPU keeps executing it.
KernelStep ==
    \/ UserInitAlloc
    \/ UserInitFinish
    \/ SchedSti
    \/ SchedAcquire
    \/ SchedDispatch
    \/ SchedRelease
    \/ Resume
    \/ TrapRet
    \/ SysFork
    \/ ForkFinish
    \/ SysExit
    \/ SysWait
    \/ SysKill
    \/ SysSleep
    \/ SysSleepBlock

\* Some KernelStep can be taken: the kernel has not halted and the thread of
\* control is the boot code, the scheduler, a process that swtch has just
\* resumed, or a process inside a system call or on its way to trapret.
KernelEnabled ==
    /\ panicked = "none"
    /\ \/ sctx.pc # "switched"
       \/ /\ cpus.proc # 0
          /\ \/ kctx[cpus.proc].ctx # "none"
             \/ kctx[cpus.proc].pc \in
                    {"trapret", "syscall", "fork", "sys_sleep"}

\* The timer interrupt can be taken: IRQs are enabled.
TimerEnabled ==
    /\ panicked = "none"
    /\ ~cpsr_I
    /\ sctx.pc \notin {"userinit", "userinit2"}
    /\ sctx.pc = "switched" => /\ cpus.proc # 0
                               /\ kctx[cpus.proc].ctx = "none"

\* Weak fairness of KernelStep: kernel code that can run does run (there is
\* one thread of control, so at most one KernelStep is enabled).
WeakFairKernel == <>[]KernelEnabled => []<><<KernelStep>>_vars

\* Strong fairness of TimerIRQ: a pending timer interrupt stays pending
\* while IRQs are disabled and is taken when they are enabled again, so it
\* is taken again and again if IRQs are enabled again and again.
StrongFairTimer == []<>TimerEnabled => []<><<TimerIRQ>>_vars

\* The kernel under a fair CPU and a timer that keeps ticking: it is
\* Spec /\ WF_vars(KernelStep) /\ SF_vars(TimerIRQ) with the enabling
\* conditions of the two actions written out.  What user code does
\* (SysTrap, BadTrap) is left free.
FairSpec == Spec /\ WeakFairKernel /\ StrongFairTimer

(* ------------------------------ properties ----------------------------- *)

Live == {"RUNNABLE", "RUNNING", "SLEEPING"}

\* The slot whose kernel path is running, 0 when the scheduler thread runs.
Cur == IF sctx.pc = "switched" THEN cpus.proc ELSE 0

\* Slot p is inside the system call num, at its entry or further on.
InCall(p, num, at) ==
    /\ Cur = p
    /\ p # 0
    /\ \/ kctx[p].pc = "syscall" /\ proc[p].tf.r0 = num
       \/ kctx[p].pc = at

\* C1: in every state the kernel reaches without a panic, a slot is UNUSED
\* exactly when its pid is 0, its kstack is null and its pgdir is null.
C1_UnusedIffCleared ==
    panicked = "none" =>
        \A p \in Slots :
            proc[p].state = "UNUSED" <=>
                (proc[p].pid = 0 /\ proc[p].kstack = NULL /\ proc[p].pgdir = NULL)

\* C2: at most one process control block is RUNNING.
C2_AtMostOneRunning ==
    Cardinality({p \in Slots : proc[p].state = "RUNNING"}) <= 1

\* A process runs while another one, preempted by the timer, is RUNNABLE and
\* a third one sleeps.
C2_Witness ==
    \E p, q, r \in Slots :
        /\ proc[p].state = "RUNNING"
        /\ proc[q].state = "RUNNABLE" /\ kctx[q].ctx = "yield"
        /\ proc[r].state = "SLEEPING"

\* The operation a change of proc[p].state from a to b belongs to.
ByOperation(p, a, b) ==
    CASE a = "UNUSED" /\ b = "EMBRYO" ->
             \* allocproc, from userinit or from fork
             \/ sctx.pc = "userinit"
             \/ Cur # 0 /\ InCall(Cur, SYS_fork, "syscall")
      [] a = "EMBRYO" /\ b \in {"RUNNABLE", "UNUSED"} ->
             \* the end of userinit or of fork
             \/ sctx.pc = "userinit2"
             \/ Cur # 0 /\ kctx[Cur].pc = "fork" /\ kctx[Cur].np = p
      [] a = "RUNNABLE" /\ b = "RUNNING" ->
             \* the scheduler dispatches p
             sctx.pc = "scan" /\ sctx'.pc = "switched" /\ cpus'.proc = p
      [] a = "RUNNING" /\ b = "RUNNABLE" ->
             Cur = p /\ kctx'[p].ctx = "yield"
      [] a = "RUNNING" /\ b = "SLEEPING" ->
             Cur = p /\ kctx'[p].ctx = "sleep" /\ proc'[p].channel # 0
      [] a = "SLEEPING" /\ b = "RUNNABLE" ->
             \* wakeup on its channel, or kill
             Cur # p /\ (ticks' # ticks \/ Cur # 0)
      [] a = "RUNNING" /\ b = "ZOMBIE" ->
             Cur = p /\ kctx'[p].ctx = "exit"
      [] a = "ZOMBIE" /\ b = "UNUSED" ->
             \* reaped by the wait of its parent
             /\ Cur = proc[p].parent
             /\ InCall(Cur, SYS_wait, "wait")
      [] OTHER -> FALSE

SpecTransitions ==
    {<<"UNUSED", "EMBRYO">>, <<"EMBRYO", "RUNNABLE">>, <<"RUNNABLE", "RUNNING">>,
     <<"RUNNING", "RUNNABLE">>, <<"RUNNING", "SLEEPING">>,
     <<"SLEEPING", "RUNNABLE">>, <<"RUNNING", "ZOMBIE">>, <<"ZOMBIE", "UNUSED">>}

StepsWithin(T) ==
    \A p \in Slots :
        proc'[p].state # proc[p].state =>
            /\ <<proc[p].state, proc'[p].state>> \in T
            /\ ByOperation(p, proc[p].state, proc'[p].state)

\* C3 as stated: every change of a state field is one of the eight listed
\* transitions, made by the operation listed for it, and no other happens.
C3_OnlyListedTransitions == [][StepsWithin(SpecTransitions)]_vars

\* C3: every change of a state field is one of the eight listed transitions
\* or EMBRYO -> UNUSED, which userinit's spawn_proc and fork make when the
\* allocation of the kernel stack or of the address space fails.
C3_Transitions ==
    [][StepsWithin(SpecTransitions \cup {<<"EMBRYO", "UNUSED">>})]_vars

\* A fork has failed and left its slot UNUSED with the pid it was given, while
\* a ZOMBIE and a SLEEPING process exist.
C3_Witness ==
    /\ panicked = "none"
    /\ \E p \in Slots : proc[p].state = "UNUSED" /\ proc[p].pid # 0
    /\ \E p \in Slots : proc[p].state = "ZOMBIE"
    /\ \E p \in Slots : proc[p].state = "SLEEPING"

Children(p) == {q \in Slots : proc[q].parent = p}

\* C4: no wakeup is lost.  A process that tested its condition under the
\* lock and went to sleep is SLEEPING only while the condition is still
\* false: in sys_sleep (channel &ticks, lock ticks_lock) while fewer than n
\* ticks have passed, in wait (channel the process itself, lock ptable.lock)
\* while it has children, none of them a ZOMBIE, and has not been killed.
C4_NoLostWakeup ==
    \A p \in Slots :
        proc[p].state = "SLEEPING" =>
            /\ proc[p].channel = ticks_chan =>
                   /\ kctx[p].pc = "sys_sleep"
                   /\ (ticks - kctx[p].ticks0) % TicksMod < kctx[p].n
            /\ proc[p].channel = p =>
                   /\ kctx[p].pc = "wait"
                   /\ Children(p) # {}
                   /\ \A q \in Children(p) : proc[q].state # "ZOMBIE"
                   /\ proc[p].killed = 0
            /\ proc[p].channel \in {ticks_chan, p}

\* Two processes sleep on &ticks and a third one sleeps in wait, after the
\* tick counter has moved.
C4_Witness ==
    /\ ticks # 0
    /\ \E p, q, r \in Slots :
          /\ p # q
          /\ proc[p].state = "SLEEPING" /\ proc[p].channel = ticks_chan
          /\ proc[q].state = "SLEEPING" /\ proc[q].channel = ticks_chan
          /\ proc[r].state = "SLEEPING" /\ proc[r].channel = r

\* The step is the timer's wakeup(&ticks).
TickStep == ticks' # ticks

\* Slot c, running, becomes a ZOMBIE in this step: its exit() runs.
Exits(c) == proc[c].state = "RUNNING" /\ proc'[c].state = "ZOMBIE"

\* A wakeup on the channel slot p sleeps on is made in this step: the
\* timer's wakeup(&ticks), or the wakeup_1(parent) of a child that exits.
WakeupOnChannelOf(p) ==
    /\ proc[p].state = "SLEEPING"
    /\ \/ TickStep /\ proc[p].channel = ticks_chan
       \/ \E c \in Slots : Exits(c) /\ proc[c].parent = p /\ proc[p].channel = p

\* Slot p goes on after the sched() of its sleep().
SleepReturns(p) ==
    /\ Cur = p
    /\ kctx[p].ctx = "sleep"
    /\ kctx'[p] # kctx[p] \/ proc'[p] # proc[p]

\* C5 as stated: once wakeup(chan) has returned, a process that slept on
\* chan is RUNNABLE and its channel is 0.
C5_WokenChannelZero ==
    [][\A p \in Slots :
          WakeupOnChannelOf(p) =>
              proc'[p].state = "RUNNABLE" /\ proc'[p].channel = 0]_vars

\* C5: once wakeup(chan) has returned, a process that slept on chan is
\* RUNNABLE and its channel is still chan; the channel becomes 0 only when
\* the process is dispatched again and goes on in sleep(), where it is 0
\* unless the process has gone back to sleep in the same kernel path.
C5_WokenRunnable ==
    [][\A p \in Slots :
          /\ WakeupOnChannelOf(p) =>
                 /\ proc'[p].state = "RUNNABLE"
                 /\ proc'[p].channel = proc[p].channel
                 /\ proc'[p].channel # 0
          /\ (proc[p].channel # 0 /\ proc'[p].channel = 0) => SleepReturns(p)
          /\ SleepReturns(p) =>
                 \/ proc'[p].channel = 0
                 \/ proc'[p].state = "SLEEPING"]_vars

\* A process woken from its sleep on &ticks and a process woken from its
\* sleep in wait are RUNNABLE, not yet dispatched, with the channel still set.
C5_Witness ==
    \E p, q \in Slots :
        /\ proc[p].state = "RUNNABLE"
        /\ proc[p].channel = ticks_chan
        /\ kctx[p].ctx = "sleep"
        /\ proc[q].state = "RUNNABLE"
        /\ proc[q].channel = q
        /\ kctx[q].ctx = "sleep"
        /\ proc[q].killed = 0

\* The user pages mapped in the address spaces of slots 1..n.
RECURSIVE MappedPages(_)
MappedPages(n) == IF n = 0 THEN 0 ELSE vm[n].pages + MappedPages(n - 1)

\* Slot c is in fork() with its slot claimed, and this step ends the call.
ForkEnds(c) ==
    /\ Cur = c
    /\ c # 0
    /\ kctx[c].pc = "fork"
    /\ kctx'[c].pc # "fork"
    /\ panicked' = "none"

\* Slot c is at the entry of fork() and finds no UNUSED slot.
ForkFindsNoSlot(c) ==
    /\ InSyscall(c, SYS_fork)
    /\ \A q \in Slots : proc[q].state # "UNUSED"
    /\ kctx'[c].pc # "syscall"

\* The PCB of the caller but for r0 of its trapframe, where the system call
\* dispatcher stores the value fork returned.
CallerLeftAlone(c) ==
    /\ [proc'[c] EXCEPT !.tf.r0 = 0] = [proc[c] EXCEPT !.tf.r0 = 0]
    /\ vm'[c] = vm[c]

C7_ForkFailure ==
    [][\A c \in Slots :
          /\ ForkFindsNoSlot(c) =>
                /\ proc'[c].tf.r0 = 0 - 1
                /\ CallerLeftAlone(c)
                /\ \A q \in Slots \ {c} : proc'[q] = proc[q]
                /\ kmem' = kmem
                /\ vm' = vm
          /\ (ForkEnds(c) /\ proc'[kctx[c].np].state # "RUNNABLE") =>
                LET np == kctx[c].np
                IN  /\ proc'[c].tf.r0 = 0 - 1
                    /\ proc'[np].state = "UNUSED"
                    /\ proc'[np].kstack = NULL
                    /\ vm'[np] = NoVm
                    /\ kmem'.kstack = kmem.kstack
                    /\ kmem'.pgdir = kmem.pgdir
                    /\ kmem'.l2 = kmem.l2
                    /\ CallerLeftAlone(c)
                    /\ proc'[c].state = "RUNNING"
                    /\ \A q \in Slots \ {c, np} : proc'[q] = proc[q]
          /\ (ForkEnds(c) \/ ForkFindsNoSlot(c)) =>
                (proc'[c].tf.r0 = 0 - 1 <=>
                     \A q \in Slots : proc'[q].state = "RUNNABLE"
                                          => proc[q].state = "RUNNABLE")]_vars

\* A fork has failed inside copyuvm, after the kernel stack was allocated:
\* the page copyuvm had allocated and not mapped is still out, the slot is
\* UNUSED without a kernel stack, and the caller is back in user mode with -1.
C7_Witness ==
    /\ panicked = "none"
    /\ kmem.user > MappedPages(NPROC)
    /\ \E c, np \in Slots :
          /\ kctx[c].pc = "user"
          /\ proc[c].tf.r0 = 0 - 1
          /\ proc[np].state = "UNUSED"
          /\ proc[np].pid # 0
          /\ proc[np].kstack = NULL
          /\ proc[np].pgdir = NULL

\* C8: exit() called by a process other than init does not return: the
\* process becomes a ZOMBIE, is not dispatched again and is a ZOMBIE until a
\* wait() of its parent sets the slot UNUSED.
C8_ZombieUntilWait ==
    [][\A p \in Slots :
          /\ (InSyscall(p, SYS_exit) /\ p # init_proc) =>
                 /\ proc'[p].state = "ZOMBIE"
                 /\ Cur' # p
          /\ proc[p].state = "ZOMBIE" =>
                 /\ Cur # p
                 /\ kctx[p].pc = "exit" /\ kctx[p].ctx = "exit"
                 /\ \/ /\ proc'[p].state = "ZOMBIE"
                       /\ Cur' # p
                       /\ kctx'[p] = kctx[p]
                    \/ /\ proc'[p].state = "UNUSED"
                       /\ Cur = proc[p].parent
                       /\ InCall(Cur, SYS_wait, "wait")
          /\ panicked' # "zombie exit"]_vars

\* A ZOMBIE whose parent has not called wait is passed over: the scheduler
\* has dispatched another process, and a kill has been aimed at the ZOMBIE.
C8_Witness ==
    \E p \in Slots :
        /\ proc[p].state = "ZOMBIE"
        /\ proc[p].killed = 1
        /\ proc[p].tf.r0 = SYS_exit
        /\ Cur \notin {0, p, proc[p].parent}
        /\ proc[Cur].state = "RUNNING"

Parented == Live \cup {"ZOMBIE"}

\* C9: exit passes every child of the exiting process to init before the
\* process becomes a ZOMBIE, wakes init (asleep in wait) when such a child
\* is a ZOMBIE and wakes the parent of the exiting process when it sleeps
\* in wait; so the
\* parent of every RUNNABLE, RUNNING, SLEEPING or ZOMBIE process other than
\* init is itself RUNNABLE, RUNNING or SLEEPING.
C9_ParentAlive ==
    /\ [](\A p \in Slots :
             (proc[p].state \in Parented /\ p # init_proc) =>
                 /\ proc[p].parent \in Slots
                 /\ proc[proc[p].parent].state \in Live)
    /\ [][\A c \in Slots :
             Exits(c) =>
                 /\ \A q \in Children(c) :
                        \/ proc'[q].parent = init_proc
                        \/ proc'[q].state = "UNUSED" /\ InCall(c, SYS_wait, "wait")
                 /\ Children(c)' = {}
                 /\ (\E q \in Children(c) : proc'[q].state = "ZOMBIE")
                        => ~(/\ proc'[init_proc].state = "SLEEPING"
                              /\ proc'[init_proc].channel = init_proc)
                 /\ LET pp == proc[c].parent
                    IN  (proc[pp].state = "SLEEPING" /\ proc[pp].channel = pp)
                            => proc'[pp].state = "RUNNABLE"]_vars

\* A process that forked a child has exited after a trap: it is a ZOMBIE with
\* the pid of its child still in r0, and the child now belongs to init.
C9_Witness ==
    \E z, q \in Slots :
        /\ z # init_proc
        /\ proc[z].state = "ZOMBIE"
        /\ proc[z].pid < proc[q].pid
        /\ proc[z].tf.r0 = proc[q].pid
        /\ proc[q].state \in Parented
        /\ proc[q].parent = init_proc
        /\ proc[z].parent = init_proc

\* C10: init never becomes a ZOMBIE or UNUSED; an exit() reached with init
\* as the current process halts the kernel with the panic "init exiting"
\* before the state of any PCB is changed.
C10_InitNeverExits ==
    /\ [](init_proc # 0 => proc[init_proc].state \notin {"ZOMBIE", "UNUSED"})
    /\ [][/\ (init_proc # 0 /\ InSyscall(init_proc, SYS_exit))
                => panicked' = "init exiting"
          /\ (init_proc # 0 /\ Cur = init_proc /\ panicked = "none"
                /\ proc'[init_proc].killed # 0 /\ kctx[init_proc].pc = "user"
                /\ kctx'[init_proc].ctx = "none")
                => panicked' = "init exiting"
          /\ (panicked = "none" /\ panicked' = "init exiting") =>
                /\ Cur = init_proc
                /\ proc'[init_proc].state = "RUNNING"
                /\ \A p \in Slots :
                      \/ /\ proc'[p].state = proc[p].state
                         /\ proc'[p].parent = proc[p].parent
                         /\ proc'[p].pid = proc[p].pid
                      \* the wait that init returns from has reaped p
                      \/ /\ proc[p].state = "ZOMBIE"
                         /\ proc'[p].state = "UNUSED"
                         /\ proc[p].parent = init_proc
                         /\ kctx[init_proc].pc = "wait"]_vars

\* init, killed by one of its children, has reached exit(): the kernel has
\* halted with the panic while the child is still there.
C10_Witness ==
    /\ panicked = "init exiting"
    /\ proc[init_proc].killed = 1
    /\ proc[init_proc].state = "RUNNING"
    /\ \E q \in Slots : proc[q].parent = init_proc /\ proc[q].state \in Live

(* --------------------------------- wait -------------------------------- *)

ZombieChildren(c) == {q \in Children(c) : proc[q].state = "ZOMBIE"}

\* A pass of wait's loop by slot c: the entry of the system call, or the
\* re-scan after c was woken from the sleep on itself.
WaitPass(c) ==
    /\ panicked = "none"
    /\ InCall(c, SYS_wait, "wait")
    /\ vars' # vars
    /\ panicked' \in {"none", "init exiting"}

\* The pass reaped slot q: the slot is free and its pages are back.
Reaped(q) ==
    /\ proc'[q].state = "UNUSED"
    /\ proc'[q].kstack = NULL
    /\ proc'[q].pid = 0
    /\ proc'[q].parent = NULL
    /\ vm'[q] = NoVm
    /\ kmem' = [kstack |-> kmem.kstack - 1,
                pgdir |-> kmem.pgdir - 1,
                l2 |-> kmem.l2 - vm[q].l2,
                user |-> kmem.user - vm[q].pages]

\* C11: wait() returns a pid only if a child of the caller with that pid
\* was ZOMBIE, and then that child's slot is UNUSED with its kernel stack
\* and page directory freed and nothing else of the caller changed by wait;
\* it returns -1 exactly when no child is ZOMBIE and the caller has no
\* children or is killed; otherwise the caller sleeps on itself, and the
\* pass after the wakeup obeys the same rule.
C11_WaitContract ==
    [][\A c \in Slots : WaitPass(c) =>
          LET r == proc'[c].tf.r0
              slept == proc'[c].state = "SLEEPING"
          IN  IF ZombieChildren(c) # {}
              THEN /\ ~slept
                   /\ \E q \in ZombieChildren(c) :
                         /\ r = proc[q].pid
                         /\ r > 0
                         /\ Reaped(q)
                         /\ \A o \in Slots \ {q} :
                               proc'[o].state = "UNUSED"
                                   <=> proc[o].state = "UNUSED"
                   /\ proc'[c].sz = proc[c].sz
                   /\ proc'[c].pgdir = proc[c].pgdir
                   /\ proc'[c].kstack = proc[c].kstack
                   /\ proc'[c].pid = proc[c].pid
                   /\ vm'[c] = vm[c]
              ELSE IF Children(c) = {} \/ proc[c].killed # 0
              THEN /\ ~slept
                   /\ r = 0 - 1
                   /\ kmem' = kmem
                   /\ vm' = vm
                   /\ \A o \in Slots :
                         proc'[o].state = "UNUSED" <=> proc[o].state = "UNUSED"
              ELSE /\ slept
                   /\ proc'[c].channel = c
                   /\ kctx'[c].pc = "wait"
                   /\ kmem' = kmem
                   /\ vm' = vm
                   /\ \A o \in Slots \ {c} : proc'[o] = proc[o]]_vars

\* A parent is back in user mode from wait with the pid of the child it
\* reaped, whose slot is free again, while another child of it is alive.
C11_Witness ==
    \E c \in Slots, q \in Slots :
        /\ panicked = "none"
        /\ Running(c)
        /\ kctx[c].pc = "user"
        /\ proc[c].tf.r0 = 2
        /\ proc[c].killed = 0
        /\ proc[q].state = "UNUSED"
        /\ proc[q].kstack = NULL
        /\ next_pid > 2
        /\ \E o \in Children(c) : proc[o].state \in Live
        /\ \A o \in Slots : proc[o].pid # 2

(* --------------------------------- kill -------------------------------- *)

\* The kill system call of slot c runs in this step.
KillStep(c) ==
    /\ InSyscall(c, SYS_kill)
    /\ vars' # vars
    /\ panicked' \in {"none", "init exiting"}

\* The processes that have the pid: the slots in use that carry it.
ProcessesWithPid(pid) ==
    {p \in Slots : proc[p].pid = pid /\ proc[p].state # "UNUSED"}

\* Slot o is as it was, but for what the caller's own exit does to others
\* when the caller is itself killed (exit leaves every killed flag alone).
KillLeaves(c, o) ==
    IF proc'[c].state = "RUNNING" THEN proc'[o] = proc[o]
    ELSE proc'[o].killed = proc[o].killed

\* C12: kill(pid) returns 0 when a process with that pid exists: killed is
\* set on that PCB, a SLEEPING target becomes RUNNABLE and no other PCB is
\* changed; it returns -1 and changes no PCB when no process has that pid.
C12_KillContract ==
    [][\A c \in Slots : KillStep(c) =>
          \E pid \in 0..MaxPid :
              IF ProcessesWithPid(pid) # {}
              THEN /\ proc'[c].tf.r0 = 0
                   /\ \E p \in ProcessesWithPid(pid) :
                         /\ proc'[p].killed = 1
                         /\ proc[p].state = "SLEEPING"
                               => proc'[p].state = "RUNNABLE"
                         /\ \A o \in Slots \ {c, p} : KillLeaves(c, o)
              ELSE /\ proc'[c].tf.r0 = 0 - 1
                   /\ \A o \in Slots \ {c} : KillLeaves(c, o)
                   /\ proc'[c].killed = proc[c].killed]_vars

(* ------------------------- the fate of the killed ---------------------- *)

\* Slot p, killed while it slept in sys_sleep or wait, runs again.
KilledSleeperResumes(p) ==
    /\ panicked = "none"
    /\ sctx.pc = "switched"
    /\ cpus.proc = p
    /\ kctx[p].ctx = "sleep"
    /\ proc[p].killed # 0
    /\ vars' # vars

\* The condition slot p slept for in the call it is in has come true.
SleptFor(p) ==
    IF kctx[p].pc = "wait" THEN ZombieChildren(p) # {}
    ELSE Elapsed(St, p) >= kctx[p].n

Dispatched(r) ==
    /\ sctx.pc = "scan"
    /\ sctx'.pc = "switched"
    /\ sctx'.p = r

\* The slot the scan of the table looks at next.
NextPos ==
    IF sctx.pc = "scan" THEN sctx.p
    ELSE IF sctx.pc = "switched" THEN sctx.p + 1
    ELSE 1

\* The slots the scan looks at before it comes to slot q.
Ahead(q) ==
    IF q >= NextPos THEN NextPos..(q - 1)
    ELSE (NextPos..NPROC) \cup (1..(q - 1))

\* C14: the scheduler dispatches only RUNNABLE processes, in table order,
\* round-robin.  A slot becomes RUNNING only by a dispatch, of a RUNNABLE
\* slot, the first one at or after the scan position.  While slot q is
\* RUNNABLE the set of slots the scan meets before q only shrinks, any other
\* slot dispatched is taken from that set and is out of it afterwards, so
\* no other process is dispatched more than once before q.  And with
\* every dispatched process giving the CPU back (timer ticks arriving, the
\* kernel not halted by the panic of an exiting init) a RUNNABLE process is
\* dispatched.
C14_RoundRobin ==
    /\ [][\A r \in Slots :
             /\ (proc'[r].state = "RUNNING" /\ proc[r].state # "RUNNING")
                   => Dispatched(r)
             /\ Dispatched(r) =>
                   /\ proc[r].state = "RUNNABLE"
                   /\ proc'[r].state = "RUNNING"
                   /\ r >= sctx.p
                   /\ \A q \in sctx.p..(r - 1) : proc[q].state # "RUNNABLE"
                   /\ \A q \in Slots \ {r} :
                         /\ proc'[q].state = proc[q].state
                         /\ proc[q].state = "RUNNABLE" => r \in Ahead(q)]_vars
    /\ [][\A q \in Slots :
             (proc[q].state = "RUNNABLE" /\ proc'[q].state = "RUNNABLE") =>
                 /\ Ahead(q)' \subseteq Ahead(q)
                 /\ \A r \in Slots : Dispatched(r) => r \notin Ahead(q)']_vars
    /\ \A q \in Slots :
          (proc[q].state = "RUNNABLE")
              ~> (proc[q].state = "RUNNING" \/ panicked = "init exiting")

\* The last slot of the table has been dispatched again after its yield
\* while the slots before it, which had their turn earlier in the round,
\* are RUNNABLE and wait for the next round.
C14_Witness ==
    /\ panicked = "none"
    /\ sctx = [pc |-> "switched", p |-> NPROC]
    /\ proc[NPROC].state = "RUNNING"
    /\ kctx[NPROC].ctx = "yield"
    /\ \A q \in Slots \ {NPROC} : proc[q].state = "RUNNABLE"

(* -------------------------------- sched -------------------------------- *)

SchedPanics ==
    {"sched ptable.lock", "sched locks", "sched running", "sched interruptible"}

\* Slot c calls sched() in this step and is switched away from.
SchedCalled(c) ==
    /\ kctx[c].ctx = "none"
    /\ kctx'[c].ctx \in {"yield", "sleep", "exit"}

\* C15: the preconditions of sched() hold on every path that reaches it
\* (the yield of a timer interrupt, sleep called from wait and from
\* sys_sleep, exit): ptable.lock is held, ncli is 1, the caller's state is
\* not RUNNING and IRQs are disabled; none of the four panics of sched is
\* reachable.
C15_SchedPreconditions ==
    /\ [](panicked \notin SchedPanics)
    /\ [][\A c \in Slots : SchedCalled(c) =>
             /\ panicked' = "none"
             /\ Cur = c
             /\ lock'["ptable"] = [locked |-> 1, cpu |-> 1]
             /\ lock'["ticks"].locked = 0
             /\ cpus'.ncli = 1
             /\ cpsr_I'
             /\ proc'[c].state \in {"RUNNABLE", "SLEEPING", "ZOMBIE"}
             /\ kctx'[c].ctx = "yield" => proc'[c].state = "RUNNABLE"
             /\ kctx'[c].ctx = "sleep" => proc'[c].state = "SLEEPING"
             /\ kctx'[c].ctx = "exit" => proc'[c].state = "ZOMBIE"]_vars

\* Three processes are switched away from, each inside sched() on another
\* path: one yielded at a timer interrupt, one sleeps in sys_sleep, one
\* has exited.
C15_Witness ==
    \E a \in Slots, b \in Slots, c \in Slots :
        /\ panicked = "none"
        /\ kctx[a].ctx = "yield" /\ proc[a].state = "RUNNABLE"
        /\ kctx[b].ctx = "sleep" /\ kctx[b].pc = "sys_sleep"
        /\ proc[b].state = "SLEEPING"
        /\ kctx[c].ctx = "exit" /\ proc[c].state = "ZOMBIE"

(* ------------------------- locks and interrupts ------------------------ *)

LockHeld == \E lk \in LockNames : lock[lk].locked = 1

\* C16: in every reachable state in which a spinlock is held, ncli >= 1 and
\* IRQs are disabled, so no timer interrupt is taken (and nothing yields on
\* one) while a lock is held; this holds across the context switches, the
\* scheduler's own step of enabling IRQs included, which it takes with no
\* lock held.
C16_LockHeldIrqOff ==
    /\ [](LockHeld => (cpus.ncli >= 1 /\ cpsr_I))
    /\ [][TimerIRQ => ~LockHeld]_vars

\* The scheduler, which enabled IRQs before it took ptable.lock, has
\* switched to a process that it resumes inside sched(): the lock is held
\* across the switch.
C16_Witness ==
    /\ panicked = "none"
    /\ sctx.pc = "switched"
    /\ kctx[cpus.proc].ctx = "yield"
    /\ lock["ptable"].locked = 1
    /\ cpus.irq_enabled = 1
    /\ first_sched = 0

(* ------------------ pushcli, popcli, acquire, release ------------------ *)

\* The interrupt-disable counter and the locks on their own: any sequence
\* of calls of pushcli, popcli, acquire and release, from a CPU with no
\* pushcli outstanding, IRQs enabled or disabled, and either value left in
\* irq_enabled by earlier use.  Between critical sections (ncli = 0) the
\* code around them turns IRQs on and off (sti in the scheduler, the trap
\* entry and the return to user mode).
CliInit ==
    /\ proc = [p \in Slots |-> ZeroProc]
    /\ vm = [p \in Slots |-> NoVm]
    /\ kctx = [p \in Slots |-> NoCtx]
    /\ lock = [l \in LockNames |-> [locked |-> 0, cpu |-> 0]]
    /\ \E e \in {0, 1} : cpus = [ncli |-> 0, irq_enabled |-> e, proc |-> 0]
    /\ cpsr_I \in BOOLEAN
    /\ ticks = 0
    /\ next_pid = 1
    /\ init_proc = 0
    /\ first_sched = 1
    /\ first_proc = 1
    /\ sctx = [pc |-> "userinit", p |-> 0]
    /\ kmem = [kstack |-> 0, pgdir |-> 0, l2 |-> 0, user |-> 0]
    /\ panicked = "none"
    /\ mmu = NoMmu
    /\ intc = NoIntc

CliPush ==
    /\ panicked = "none"
    /\ cpus.ncli < MaxCli
    /\ Commit(pushcli(St))

CliPop ==
    /\ panicked = "none"
    /\ Commit(popcli(St))

CliAcquire ==
    /\ panicked = "none"
    /\ cpus.ncli < MaxCli
    /\ \E lk \in LockNames : Commit(acquire(St, lk))

CliRelease ==
    /\ panicked = "none"
    /\ \E lk \in LockNames : Commit(release(St, lk))

\* sti() or cli() by the code between critical sections.
CliSetIrq ==
    /\ panicked = "none"
    /\ cpus.ncli = 0
    /\ Commit([St EXCEPT !.cpsr_I = ~cpsr_I])

CliNext ==
    \/ CliPush
    \/ CliPop
    \/ CliAcquire
    \/ CliRelease
    \/ CliSetIrq

CliSpec == CliInit /\ [][CliNext]_vars

CliRun(w, s) ==
    LET RECURSIVE run(_, _)
        run(i, x) == IF i > Len(w) THEN x
                     ELSE run(i + 1, IF w[i] = "push" THEN pushcli(x)
                                                      ELSE popcli(x))
    IN  run(1, s)

\* The sequences of at most n calls, each a pushcli or a popcli.
CliWords(n) == UNION {[1..k -> {"push", "pop"}] : k \in 0..n}

\* The state before call i of the sequence w run from the current state.
CliBefore(w, i) == CliRun(SubSeq(w, 1, i - 1), St)

\* The outermost pushcli that the popcli at j matches: the last call before
\* j that is a pushcli made with the counter at 0 (0 if it is not in w).
Outermost(w, j) ==
    LET S == {i \in 1..(j - 1) :
                 w[i] = "push" /\ CliBefore(w, i).cpus.ncli = 0}
    IN  IF S = {} THEN 0 ELSE CHOOSE i \in S : \A k \in S : k <= i

\* C17: for any sequence of pushcli/popcli calls, made directly or through
\* acquire/release: the counter is never negative in a state that has not
\* panicked (popcli with the counter at 0, or with IRQs enabled, panics);
\* whenever a popcli brings the counter back to 0, IRQs are enabled exactly
\* if they were enabled just before the matching outermost pushcli; so
\* pushcli(); popcli() with IRQs disabled does not enable them.
C17_CliBalance ==
    /\ [](panicked = "none" => cpus.ncli >= 0)
    /\ [](panicked = "none" =>
            /\ cpus.ncli = 0 => popcli(St).panicked \in
                                    {"popcli", "popcli - interruptible"}
            /\ ~cpsr_I => popcli(St).panicked = "popcli - interruptible"
            /\ cpsr_I =>
                  LET s2 == popcli(pushcli(St))
                  IN  s2.cpsr_I /\ s2.cpus.ncli = cpus.ncli /\ Ok(s2))
    /\ [](panicked = "none" =>
            \A w \in CliWords(MaxWord) : \A j \in 1..Len(w) :
                LET after == CliRun(SubSeq(w, 1, j), St)
                    i == Outermost(w, j)
                IN  (w[j] = "pop" /\ Ok(after) /\ after.cpus.ncli = 0
                        /\ i # 0)
                        => (after.cpsr_I <=> CliBefore(w, i).cpsr_I))
    /\ [][(CliPop /\ panicked' = "none") =>
             /\ cpus.ncli >= 1
             /\ cpus'.ncli = cpus.ncli - 1
             /\ cpsr_I
             /\ cpus'.ncli > 0 => cpsr_I']_vars

\* Two nested critical sections were entered with IRQs enabled: both locks
\* are held, the counter is 2, IRQs are disabled and the flag saved by the
\* outermost pushcli says they were enabled; leaving the inner section
\* keeps them disabled, leaving the outer one enables them again.
C17_Witness ==
    /\ panicked = "none"
    /\ cpus.ncli = 2
    /\ cpus.irq_enabled = 1
    /\ cpsr_I
    /\ \A lk \in LockNames : lock[lk].locked = 1
    /\ release(St, "ticks").cpsr_I
    /\ ~release(release(St, "ticks"), "ptable").cpsr_I

(* ---------------------- ncli and the I bit of CPSR --------------------- *)

\* The kernel is past boot: init, the first process, has left fork_return
\* and trapret for user mode.
Booted == first_proc = 0 /\ kctx[init_proc].pc # "trapret"

\* The current process is in kernel mode with no lock taken (yet, or any
\* more): in trap() or a system call handler, or in trapret after
\* fork_return.
InHandler ==
    /\ sctx.pc = "switched"
    /\ cpus.proc # 0
    /\ kctx[cpus.proc].ctx = "none"
    /\ kctx[cpus.proc].pc \in {"syscall", "fork", "trapret"}

\* C18 as stated: in every reachable state outside the trap-entry assembly
\* ncli == 0 exactly when IRQs are enabled, also while trap() and the
\* system call handlers run before they take a lock, and in the scheduler
\* loop.  (The states of boot, up to the first entry to user mode, are left
\* out: the sources do not fix the I bit that boot leaves.)
C18_NcliZeroIffIrqOn ==
    (panicked = "none" /\ Booted) => (cpus.ncli = 0 <=> ~cpsr_I)

\* C18, amended: IRQs are enabled only while ncli == 0.  The converse does
\* not hold: the trap entry disables IRQs without a pushcli, so trap() and
\* the system call handlers run with ncli == 0 and IRQs disabled until they
\* take a lock, so does a new process in trapret when fork_return's release
\* found irq_enabled clear, and so does the scheduler between its release
\* of ptable.lock and its sti; these are the only states past boot with
\* ncli == 0 and IRQs disabled.
C18_IrqOnOnlyAtZero ==
    /\ panicked = "none" => (~cpsr_I => cpus.ncli = 0)
    /\ (panicked = "none" /\ Booted /\ cpus.ncli = 0 /\ cpsr_I) =>
          \/ InHandler
          \/ sctx.pc = "sti"

\* A system call handler runs, before it has taken any lock, with ncli == 0
\* and IRQs disabled by the trap entry.
C18_Witness ==
    /\ panicked = "none"
    /\ Booted
    /\ InHandler
    /\ kctx[cpus.proc].pc = "syscall"
    /\ cpus.ncli = 0
    /\ cpsr_I
    /\ \A lk \in LockNames : lock[lk].locked = 0

(* -------------------------- acquire and release ------------------------ *)

PcbWritten(p) ==
    \/ proc'[p].state # proc[p].state
    \/ proc'[p].pid # proc[p].pid
    \/ proc'[p].parent # proc[p].parent
    \/ proc'[p].channel # proc[p].channel

\* The code of the step calls acquire(&ptable.lock) itself.  The two paths
\* that do not are the rest of userinit after allocproc has returned and
\* the rest of fork after allocproc has returned (spawn_proc included):
\* allocproc released the lock before it returned and there is no acquire
\* after it.
TakesPtableLock ==
    /\ sctx.pc # "userinit2"
    /\ ~(Cur # 0 /\ kctx[Cur].pc = "fork")

\* C20: every write to a PCB's state, pid, parent or channel (and every
\* scan of the table) is made while ptable.lock is held: in allocproc and
\* spawn_proc, userinit, fork, exit, wait, sleep, wakeup, kill, yield and
\* the scheduler.
C20_WritesUnderLock ==
    [][\A p \in Slots : PcbWritten(p) =>
          \/ lock["ptable"].locked = 1
          \/ lock'["ptable"].locked = 1
          \/ TakesPtableLock]_vars

(* ====================== page tables: mmu.h and vm.c ==================== *)

MBYTE == 1048576
PDXSHIFT == 20
PTXSHIFT == 12
N_PD_ENTRIES == 1024
N_PT_ENTRIES == 1024
\* memlayout.h is not part of the sources: the user part of a directory is
\* one page of N_PD_ENTRIES words, each covering MBYTE ("limited to 1GB").
USERBOUND == 1073741824

PDX_ATRB_DOMAIN0 == 0
PDX_ATRB_PTX_ENTRY == 1
PDX_ATRB_SECTION_ENTRY == 2
PTX_ATRB_SMALL == 2
PTX_ATRB_BUFFERED == 4
PTX_ATRB_CACHED == 8
PTX_ATRB_APX == 512
PTX_ATRB_UAP == 2
PTX_ATRB_URW == 3

\* u_int32 arithmetic.  The addresses and sizes of the model lie below 2^31,
\* where no sum of two of them wraps; a difference that falls below zero
\* wraps to a value of the upper half, which stands for all of them by
\* its largest representable member.
HighHalf == 2147483647
U32(x) == IF x < 0 THEN HighHalf ELSE x

RECURSIVE BitAnd(_, _)
BitAnd(a, b) ==
    IF a = 0 \/ b = 0 THEN 0
    ELSE (a % 2) * (b % 2) + 2 * BitAnd(a \div 2, b \div 2)

RECURSIVE BitOr(_, _)
BitOr(a, b) ==
    IF a = 0 THEN b
    ELSE IF b = 0 THEN a
    ELSE (IF a % 2 = 1 \/ b % 2 = 1 THEN 1 ELSE 0)
         + 2 * BitOr(a \div 2, b \div 2)

RECURSIVE BitXor(_, _)
BitXor(a, b) ==
    IF a = 0 THEN b
    ELSE IF b = 0 THEN a
    ELSE (IF a % 2 = b % 2 THEN 0 ELSE 1) + 2 * BitXor(a \div 2, b \div 2)

\* a & ~b
BitClear(a, b) == a - BitAnd(a, b)

PDX(va) == (U32(va) \div 2 ^ PDXSHIFT) % 4096
PTX(va) == (U32(va) \div 2 ^ PTXSHIFT) % 256
PTE_ADDR(pte) == pte - (pte % 4096)
PTE_FLAGS(pte) == pte % 4096
PG_ROUND_UP(sz) == U32(sz + PGSIZE - 1) - (U32(sz + PGSIZE - 1) % PGSIZE)
PG_ROUND_DOWN(a) == a - (a % PGSIZE)

PTX_ATRB_ACCESS_PERM(n, ap) == (ap % 4) * 2 ^ (n * 2 + 4)
PTX_ATRB_AP(ap) ==
    BitOr(BitOr(BitOr(PTX_ATRB_ACCESS_PERM(3, ap), PTX_ATRB_ACCESS_PERM(2, ap)),
                PTX_ATRB_ACCESS_PERM(1, ap)),
          PTX_ATRB_ACCESS_PERM(0, ap))
UVM_PDX_ATRB == BitOr(PDX_ATRB_DOMAIN0, PDX_ATRB_PTX_ENTRY)
UVM_PTX_ATRB ==
    BitOr(BitOr(BitOr(BitXor(PTX_ATRB_AP(PTX_ATRB_URW), PTX_ATRB_APX),
                      PTX_ATRB_CACHED),
                PTX_ATRB_BUFFERED),
          PTX_ATRB_SMALL)

\* A kernel pointer to a page is the number of its frame; frame f lies at
\* physical address f * PGSIZE (memlayout.h is not part of the sources).
v2p(f) == f * PGSIZE
p2v(pa) == pa \div PGSIZE

\* The kernel's own directory (static memory, not a frame of the allocator).
kpgdir == NFrames + 1

\* Words of a page table: t[i], zero where nothing is stored.
Entry(t, i) == IF i \in DOMAIN t THEN t[i] ELSE 0
Store(t, i, w) ==
    IF w = 0 THEN [j \in DOMAIN t \ {i} |-> t[j]]
    ELSE [j \in DOMAIN t \cup {i} |-> IF j = i THEN w ELSE t[j]]

\* A pte_t *: the table it points into and the index; NoPte is the null one.
NoPte == [tab |-> 0, idx |-> 0]
Deref(m, pte) == Entry(m.tab[pte.tab], pte.idx)
Assign(m, pte, w) == [m EXCEPT !.tab[pte.tab] = Store(@, pte.idx, w)]

Running_vm(m) == m.halt = "none"
vm_panic(m, msg) == IF Running_vm(m) THEN [m EXCEPT !.halt = msg] ELSE m

\* kalloc(): the head of the free list, or 0 when the list is empty.  The
\* page holds what kfree left in it.
FreeFrames(m) == {f \in Frames : m.use[f] = "free"}
alloc_page(m) ==
    IF m.avail = 0 \/ FreeFrames(m) = {} THEN [m EXCEPT !.r = 0]
    ELSE LET f == CHOOSE f \in FreeFrames(m) : \A g \in FreeFrames(m) : f <= g
         IN  [m EXCEPT !.use[f] = "used", !.avail = @ - 1, !.r = f]

\* kfree(v): the page goes back on the list, filled with junk.  A pointer
\* that is not an allocated page is recorded in bad.
free_page(m, f) ==
    IF f \notin Frames THEN [m EXCEPT !.bad = @ \cup {"kfree of no page"}]
    ELSE IF m.use[f] = "free" THEN [m EXCEPT !.bad = @ \cup {"double free"}]
    ELSE [m EXCEPT !.use[f] = "free", !.tab[f] = <<>>, !.data[f] = "junk"]

\* memset(page, 0, PGSIZE)
memset_page(m, f) == [m EXCEPT !.tab[f] = <<>>, !.data[f] = "zero"]

walkpgdir(m, pgdir, va, l1attr, alloc) ==
    LET pde == Entry(m.tab[pgdir], PDX(va))
        table(m1) ==
            IF m1.r = 0 THEN [m1 EXCEPT !.pte = NoPte]
            ELSE [memset_page(m1, m1.r) EXCEPT
                      !.tab[pgdir] = Store(@, PDX(va), BitOr(v2p(m1.r), l1attr)),
                      !.pte = [tab |-> m1.r, idx |-> PTX(va)]]
    IN  IF pde # 0
        THEN [m EXCEPT !.pte = [tab |-> p2v(PTE_ADDR(pde)), idx |-> PTX(va)]]
        ELSE IF ~alloc THEN [m EXCEPT !.pte = NoPte]
        ELSE table(alloc_page(m))

\* What mappages does with a slot that holds a mapping already.
map_remap_overwrite(m) == m
map_remap(m) == vm_panic(m, "remap")

\* The loop of mappages for 1 MB sections (vm.c:66-73).
RECURSIVE map_sections(_, _, _, _, _, _)
map_sections(m, pgdir, a, last, pa, l1attr) ==
    IF a > last THEN [m EXCEPT !.r = 0]
    ELSE LET m1 == IF Entry(m.tab[pgdir], PDX(a)) # 0 THEN map_remap(m) ELSE m
         IN  IF ~Running_vm(m1) THEN m1
             ELSE map_sections([m1 EXCEPT !.tab[pgdir] =
                                    Store(@, PDX(a), BitOr(pa, l1attr))],
                               pgdir, U32(a + MBYTE), last, U32(pa + MBYTE),
                               l1attr)

\* The loop of mappages for 4 kB pages (vm.c:75-85).
RECURSIVE map_pages(_, _, _, _, _, _, _)
map_pages(m, pgdir, a, last, pa, l1attr, l2attr) ==
    LET next(m3) ==
            IF a = last THEN [m3 EXCEPT !.r = 0]
            ELSE map_pages(m3, pgdir, U32(a + PGSIZE), last,
                           U32(pa + PGSIZE), l1attr, l2attr)
        store(m2) ==
            IF ~Running_vm(m2) THEN m2
            ELSE next(Assign(m2, m2.pte, BitOr(pa, l2attr)))
        check(m1) ==
            IF m1.pte = NoPte THEN [m1 EXCEPT !.r = 0 - 1]
            ELSE store(IF Deref(m1, m1.pte) # 0 THEN map_remap(m1) ELSE m1)
    IN  check(walkpgdir(m, pgdir, a, l1attr, TRUE))

mappages(m, pgdir, va, size, pa, l1attr, l2attr) ==
    LET a == PG_ROUND_DOWN(U32(va))
        last == PG_ROUND_DOWN(U32(U32(va) + size - 1))
    IN  IF ~Running_vm(m) THEN m
        ELSE IF BitAnd(PDX_ATRB_SECTION_ENTRY, l1attr) # 0
             THEN map_sections(m, pgdir, a, last, pa, l1attr)
        ELSE IF BitAnd(PDX_ATRB_PTX_ENTRY, l1attr) # 0
             THEN map_pages(m, pgdir, a, last, pa, l1attr, l2attr)
        ELSE vm_panic(m, "Unknown page attribute")

setupkvm(m) ==
    LET zero(m1) == IF m1.r = 0 THEN m1 ELSE memset_page(m1, m1.r)
    IN  zero(alloc_page(m))

inituvm(m, pgdir, sz) ==
    LET copied(m2, mem) ==
            IF Running_vm(m2) THEN [m2 EXCEPT !.data[mem] = "init"] ELSE m2
        map(m1) ==
            copied(mappages(memset_page(m1, m1.r), pgdir, 0, PGSIZE,
                            v2p(m1.r), UVM_PDX_ATRB, UVM_PTX_ATRB),
                   m1.r)
    IN  IF sz >= PGSIZE THEN vm_panic(m, "inituvm: more than a page")
        ELSE map(alloc_page(m))

\* One pass of the body of the loop of deallocuvm (vm.c:298-309), at a;
\* the address the pass leaves in a is kept in r.
dealloc_pass(m, pgdir, a) ==
    LET pass(m1) ==
            LET pte == m1.pte
            IN  IF pte = NoPte
                THEN [m1 EXCEPT !.r = U32(a + (N_PT_ENTRIES - 1) * PGSIZE)]
                ELSE IF Deref(m1, pte) # 0
                THEN LET pa == PTE_ADDR(Deref(m1, pte))
                     IN  IF pa = 0 THEN vm_panic(m1, "kfree")
                         ELSE [Assign(free_page(m1, p2v(pa)), pte, 0)
                                  EXCEPT !.r = a]
                ELSE [m1 EXCEPT !.r = a]
    IN  pass(walkpgdir(m, pgdir, a, UVM_PDX_ATRB, FALSE))

\* The passes from a on that change nothing but a, taken together: over
\* absent directory words a moves by N_PT_ENTRIES pages at a time, inside a
\* page table it moves page by page over the zero words.  The value is the
\* address of the next pass that frees a page, or one at which the loop ends.
dealloc_next(m, pgdir, a, oldsz) ==
    IF Entry(m.tab[pgdir], PDX(a)) = 0
    THEN LET stride == N_PT_ENTRIES * PGSIZE
             ks == 1..((oldsz - a) \div stride + 1)
             stop(k) == \/ a + k * stride >= oldsz
                        \/ Entry(m.tab[pgdir], PDX(a + k * stride)) # 0
             n == CHOOSE k \in ks : stop(k) /\ \A j \in ks : j < k => ~stop(j)
         IN  a + n * stride
    ELSE LET pgtab == p2v(PTE_ADDR(Entry(m.tab[pgdir], PDX(a))))
             top == (a - (a % MBYTE)) + MBYTE
             at(i) == (a - (a % MBYTE)) + i * PGSIZE
             live == {i \in DOMAIN m.tab[pgtab] :
                         i >= PTX(a) /\ i < 256 /\ at(i) < oldsz}
         IN  IF live # {} THEN at(CHOOSE i \in live : \A j \in live : i <= j)
             ELSE IF top < oldsz THEN top
             ELSE oldsz

\* The loop of deallocuvm (vm.c:297-310).
RECURSIVE dealloc_loop(_, _, _, _)
dealloc_loop(m, pgdir, a, oldsz) ==
    LET after(m1) ==
            IF ~Running_vm(m1) THEN m1
            ELSE dealloc_loop(m1, pgdir, U32(m1.r + PGSIZE), oldsz)
        from(b) ==
            IF b # a THEN dealloc_loop(m, pgdir, b, oldsz)
            ELSE after(dealloc_pass(m, pgdir, a))
    IN  IF ~Running_vm(m) \/ ~(a < oldsz) THEN m
        ELSE from(dealloc_next(m, pgdir, a, oldsz))

deallocuvm(m, pgdir, oldsz, newsz) ==
    LET done(m1) == IF Running_vm(m1) THEN [m1 EXCEPT !.r = newsz] ELSE m1
    IN  IF ~Running_vm(m) THEN m
        ELSE IF newsz >= oldsz THEN [m EXCEPT !.r = oldsz]
        ELSE done(dealloc_loop(m, pgdir, PG_ROUND_UP(newsz), oldsz))

\* The loop of allocuvm (vm.c:269-280).
RECURSIVE alloc_loop(_, _, _, _, _)
alloc_loop(m, pgdir, a, oldsz, newsz) ==
    LET undone(m2) == IF Running_vm(m2) THEN [m2 EXCEPT !.r = 0] ELSE m2
        page(m1) ==
            IF m1.r = 0 THEN undone(deallocuvm(m1, pgdir, newsz, oldsz))
            ELSE alloc_loop(mappages(memset_page(m1, m1.r), pgdir, a, PGSIZE,
                                     v2p(m1.r), UVM_PDX_ATRB, UVM_PTX_ATRB),
                            pgdir, U32(a + PGSIZE), oldsz, newsz)
    IN  IF ~Running_vm(m) THEN m
        ELSE IF ~(a < newsz) THEN [m EXCEPT !.r = newsz]
        ELSE page(alloc_page(m))

allocuvm(m, pgdir, oldsz, newsz) ==
    IF ~Running_vm(m) THEN m
    ELSE IF newsz >= USERBOUND THEN [m EXCEPT !.r = 0]
    ELSE IF newsz < oldsz THEN [m EXCEPT !.r = oldsz]
    ELSE alloc_loop(m, pgdir, PG_ROUND_UP(oldsz), oldsz, newsz)

\* for(i = 0; i < N_PD_ENTRIES; i++) if(pgdir[i] != 0) kfree(...)
RECURSIVE free_tables(_, _, _)
free_tables(m, pgdir, is) ==
    IF is = {} THEN m
    ELSE LET i == CHOOSE i \in is : \A j \in is : i <= j
         IN  free_tables(free_page(m, p2v(PTE_ADDR(Entry(m.tab[pgdir], i)))),
                         pgdir, is \ {i})

free_vm(m, pgdir) ==
    LET tables(m1) ==
            IF ~Running_vm(m1) THEN m1
            ELSE free_page(free_tables(m1, pgdir,
                               {i \in DOMAIN m1.tab[pgdir] : i < N_PD_ENTRIES}),
                           pgdir)
    IN  IF ~Running_vm(m) THEN m
        ELSE IF pgdir = 0 THEN vm_panic(m, "freevm: no pgdir")
        ELSE tables(deallocuvm(m, pgdir, USERBOUND, 0))

copy_page_not(m, mem, pa) == m

\* memmove(mem, (char*)p2v(pa), PGSIZE)
copy_page(m, mem, pa) == [m EXCEPT !.data[mem] = m.data[p2v(pa)]]

\* The loop of copyuvm (vm.c:357-369); d is the new directory.
RECURSIVE copy_loop(_, _, _, _, _)
copy_loop(m, pgdir, d, i, sz) ==
    LET bad(m3) == [free_vm(m3, d) EXCEPT !.r = 0]
        mapped(m3) ==
            IF ~Running_vm(m3) THEN m3
            ELSE IF m3.r < 0 THEN bad(m3)
            ELSE copy_loop(m3, pgdir, d, U32(i + PGSIZE), sz)
        page(m2, pa, flags) ==
            IF m2.r = 0 THEN bad(m2)
            ELSE mapped(mappages(copy_page(m2, m2.r, pa), d, i, PGSIZE,
                                 v2p(m2.r), UVM_PDX_ATRB, flags))
        walked(m1) ==
            IF m1.pte = NoPte THEN vm_panic(m1, "copyuvm: pte should exist")
            ELSE IF Deref(m1, m1.pte) = 0
                 THEN vm_panic(m1, "copyuvm: page not present")
            ELSE page(alloc_page(m1), PTE_ADDR(Deref(m1, m1.pte)),
                      PTE_FLAGS(Deref(m1, m1.pte)))
    IN  IF ~(i < sz) THEN [m EXCEPT !.r = d]
        ELSE walked(walkpgdir(m, pgdir, i, UVM_PDX_ATRB, FALSE))

copy_uvm(m, pgdir, sz) ==
    LET dir(m1) == IF m1.r = 0 THEN m1 ELSE copy_loop(m1, pgdir, m1.r, 0, sz)
    IN  IF ~Running_vm(m) THEN m ELSE dir(setupkvm(m))

\* switchuvm(p): the user part of the directory goes into the live one.
switch_uvm(m, d) ==
    IF ~Running_vm(m) THEN m
    ELSE IF m.pgdir[d] = 0 THEN vm_panic(m, "switchuvm: no pgdir")
    ELSE LET src == m.tab[m.pgdir[d]]
             old == m.tab[kpgdir]
         IN  [m EXCEPT !.tab[kpgdir] =
                 [i \in {j \in DOMAIN old : j >= N_PD_ENTRIES} \cup DOMAIN src |->
                     IF i \in DOMAIN src THEN src[i] ELSE old[i]]]

\* growproc(n) of the process d (proc.c).
growproc(m, d, n) ==
    LET sz == m.sz[d]
        switched(m2) == IF Running_vm(m2) THEN [m2 EXCEPT !.r = 0] ELSE m2
        sized(m1) ==
            IF ~Running_vm(m1) THEN m1
            ELSE IF n # 0 /\ m1.r = 0 THEN [m1 EXCEPT !.r = 0 - 1]
            ELSE switched(switch_uvm([m1 EXCEPT !.sz[d] = m1.r], d))
    IN  sized(IF n > 0 THEN allocuvm(m, m.pgdir[d], sz, U32(sz + n))
              ELSE IF n < 0 THEN deallocuvm(m, m.pgdir[d], sz, U32(sz + n))
              ELSE [m EXCEPT !.r = sz])

(* ------------------- calls of vm.c, one at a time ---------------------- *)

kvars == <<proc, vm, kctx, lock, cpus, cpsr_I, ticks, next_pid, init_proc,
           first_sched, first_proc, sctx, kmem, panicked, intc>>

\* Sizes and addresses passed to the calls.
VmSizes == {0, 1, PGSIZE + 1, MBYTE - PGSIZE + 1, MBYTE + 1, USERBOUND}
\* Physical addresses the kernel maps by hand (devices, kernel memory).
KvmPas == {256 * MBYTE, 512 * MBYTE}
KvmVas == {16 * PGSIZE, 17 * PGSIZE, 2 * MBYTE, 3 * MBYTE}
\* Lengths of the allocator's free list a call may find, with at most n
\* frames in use at one time.
UsedFrames == {f \in Frames : mmu.use[f] # "free"}
Budgets(n) == {b \in 0..n : Cardinality(UsedFrames) + b <= n}

NoCall == [op |-> "none", dir |-> 0, x |-> 0, y |-> 0, z |-> 0, b |-> 0]
Idle == Running_vm(mmu) /\ mmu.call.op = "none"
Called(op) == Running_vm(mmu) /\ mmu.call.op = op

\* The caller is about to call op on the address space d with x, y, z, the
\* allocator having b pages left.
Call(op, d, x, y, z, b) ==
    /\ mmu' = [mmu EXCEPT !.call = [op |-> op, dir |-> d, x |-> x, y |-> y,
                                    z |-> z, b |-> b]]
    /\ UNCHANGED kvars

\* The state the pending call starts from.
Begin == [mmu EXCEPT !.avail = mmu.call.b, !.bad = {}, !.r = 0, !.pte = NoPte]

\* The state the pending call leaves when it ends in m: its result, and the
\* frames it took from the allocator booked to the address space d.
End(m, d) ==
    [m EXCEPT !.avail = 0, !.bad = {}, !.r = 0, !.pte = NoPte,
              !.own = [f \in Frames |->
                          IF m.use[f] = "free" THEN 0
                          ELSE IF mmu.use[f] = "free" THEN d
                          ELSE mmu.own[f]],
              !.call = NoCall,
              !.res = [op |-> mmu.call.op,
                       ret |-> IF Running_vm(m) THEN m.r ELSE 0,
                       bad |-> m.bad]]

Return(m, d) == mmu' = End(m, d) /\ UNCHANGED kvars

VmInit ==
    /\ proc = [p \in Slots |-> ZeroProc]
    /\ vm = [p \in Slots |-> NoVm]
    /\ kctx = [p \in Slots |-> NoCtx]
    /\ lock = [l \in LockNames |-> [locked |-> 0, cpu |-> 0]]
    /\ cpus = [ncli |-> 0, irq_enabled |-> 0, proc |-> 0]
    /\ cpsr_I = TRUE
    /\ ticks = 0
    /\ next_pid = 1
    /\ init_proc = 0
    /\ first_sched = 1
    /\ first_proc = 1
    /\ sctx = [pc |-> "userinit", p |-> 0]
    /\ kmem = [kstack |-> 0, pgdir |-> 0, l2 |-> 0, user |-> 0]
    /\ panicked = "none"
    /\ mmu = NoMmu
    /\ intc = NoIntc

\* The kernel is about to map a range by hand, by sections or by pages:
\* mappages(kpgdir, va, size, pa, l1attr, l2attr).
KvmCall ==
    \E va \in KvmVas, n \in {1, 2}, pa \in KvmPas, b \in Budgets(1),
       l1attr \in {PDX_ATRB_SECTION_ENTRY, PDX_ATRB_PTX_ENTRY, 0} :
        /\ Idle
        /\ l1attr = PDX_ATRB_SECTION_ENTRY <=> va >= MBYTE
        /\ Call("mappages", l1attr, va,
                IF va >= MBYTE THEN n * MBYTE ELSE n * PGSIZE, pa, b)

KvmMap ==
    /\ Called("mappages")
    /\ Return(mappages(Begin, kpgdir, mmu.call.x, mmu.call.y, mmu.call.z,
                       mmu.call.dir, UVM_PTX_ATRB), 0)

KvmNext == KvmCall \/ KvmMap

KvmSpec == VmInit /\ [][KvmNext]_vars

\* A caller is about to call one of the functions of vm.c on a user
\* address space.
VmCall ==
    \/ \E b \in Budgets(VmFrames) :
           Idle /\ mmu.pgdir[1] = 0 /\ Call("setupkvm", 1, 0, 0, 0, b)
    \/ \E oldsz \in VmSizes, newsz \in VmSizes, b \in Budgets(VmFrames) :
           Idle /\ mmu.pgdir[1] # 0 /\ Call("allocuvm", 1, oldsz, newsz, 0, b)
    \/ \E oldsz \in VmSizes, newsz \in VmSizes :
           Idle /\ mmu.pgdir[1] # 0 /\ Call("deallocuvm", 1, oldsz, newsz, 0, 0)
    \/ Idle /\ Call("freevm", 1, 0, 0, 0, 0)

\* pgdir[d] = setupkvm()
VmSetup ==
    /\ Called("setupkvm")
    /\ LET m == setupkvm(Begin)
           d == mmu.call.dir
       IN  Return([m EXCEPT !.pgdir[d] = m.r], d)

\* allocuvm(pgdir[d], oldsz, newsz)
VmAlloc ==
    /\ Called("allocuvm")
    /\ Return(allocuvm(Begin, mmu.pgdir[mmu.call.dir], mmu.call.x, mmu.call.y),
              mmu.call.dir)

\* deallocuvm(pgdir[d], oldsz, newsz)
VmDealloc ==
    /\ Called("deallocuvm")
    /\ Return(deallocuvm(Begin, mmu.pgdir[mmu.call.dir], mmu.call.x,
                         mmu.call.y),
              mmu.call.dir)

\* freevm(pgdir[d]); the caller forgets the pointer
VmFree ==
    /\ Called("freevm")
    /\ LET d == mmu.call.dir
           m == free_vm(Begin, mmu.pgdir[d])
       IN  Return([m EXCEPT !.pgdir[d] = 0], d)

VmNext == VmCall \/ VmSetup \/ VmAlloc \/ VmDealloc \/ VmFree

VmSpec == VmInit /\ [][VmNext]_vars

(* ------------------------------ C21 ----------------------------------- *)

\* The step in which the pending call of op runs.
Runs(op) == mmu.call.op = op /\ mmu'.call.op = "none"

\* The word mapping the page of a in the directory pgdir of m: zero when
\* the directory word is zero.
PteOf(m, pgdir, a) ==
    LET pde == Entry(m.tab[pgdir], PDX(a))
    IN  IF pde = 0 \/ p2v(PTE_ADDR(pde)) \notin DOMAIN m.tab THEN 0
        ELSE Entry(m.tab[p2v(PTE_ADDR(pde))], PTX(a))

\* The addresses at which mappages(pgdir, va, size, ...) writes a slot, in
\* steps of unit.
RangeOf(va, size, unit) ==
    {a \in {PG_ROUND_DOWN(va) + k * unit : k \in 0..(size \div unit + 1)} :
        a <= PG_ROUND_DOWN(va + size - 1)}

\* The pending mappages call finds a mapping in a slot of its range.
SlotTaken ==
    \/ /\ BitAnd(PDX_ATRB_SECTION_ENTRY, mmu.call.dir) # 0
       /\ \E a \in RangeOf(mmu.call.x, mmu.call.y, MBYTE) :
              Entry(mmu.tab[kpgdir], PDX(a)) # 0
    \/ /\ BitAnd(PDX_ATRB_SECTION_ENTRY, mmu.call.dir) = 0
       /\ BitAnd(PDX_ATRB_PTX_ENTRY, mmu.call.dir) # 0
       /\ \E a \in RangeOf(mmu.call.x, mmu.call.y, PGSIZE) :
              PteOf(mmu, kpgdir, a) # 0

\* Every non-zero word of every page table keeps its value in the step.
WordsKept ==
    \A t \in DOMAIN mmu.tab : \A i \in DOMAIN mmu.tab[t] :
        Entry(mmu'.tab[t], i) = mmu.tab[t][i]

\* C21: mappages never overwrites a mapping.  A call that finds a non-zero
\* word in a slot of its range (a directory word when it maps sections, a
\* page table word when it maps pages) halts with panic "remap", unless the
\* page table page of an earlier slot could not be allocated and it has
\* returned -1 before; it halts with "remap" in no other case; and every
\* non-zero word of the directory and of the page tables has after the call
\* the value it had before, whether the call halts or returns.
C21_NoRemap ==
    [][Runs("mappages") =>
          /\ WordsKept
          /\ SlotTaken => (mmu'.halt = "remap" \/ mmu'.res.ret = 0 - 1)
          /\ mmu'.halt = "remap" => SlotTaken
          /\ (mmu'.halt = "none" /\ mmu'.res.ret = 0
                 /\ BitAnd(PDX_ATRB_PTX_ENTRY, mmu.call.dir) # 0) =>
                \A a \in RangeOf(mmu.call.x, mmu.call.y, PGSIZE) :
                    PteOf(mmu', kpgdir, a) =
                        BitOr(mmu.call.z + (a - PG_ROUND_DOWN(mmu.call.x)),
                              UVM_PTX_ATRB)
          /\ (mmu'.halt = "none"
                 /\ BitAnd(PDX_ATRB_SECTION_ENTRY, mmu.call.dir) # 0) =>
                \A a \in RangeOf(mmu.call.x, mmu.call.y, MBYTE) :
                    Entry(mmu'.tab[kpgdir], PDX(a)) =
                        BitOr(mmu.call.z + (a - PG_ROUND_DOWN(mmu.call.x)),
                              mmu.call.dir)]_vars

\* The page at 0x10000 was mapped to a physical address, a later call whose
\* range holds that page has halted the kernel, and the mapping is in place.
C21_Witness ==
    /\ mmu.halt = "remap"
    /\ \E pa \in KvmPas :
          /\ PteOf(mmu, kpgdir, 16 * PGSIZE) = BitOr(pa, UVM_PTX_ATRB)
          /\ mmu.res.op = "mappages"

(* ------------------------------ C22 ----------------------------------- *)

\* The user pages the directory pgdir of m maps: address and word.
Mapped(m, pgdir) ==
    IF pgdir \notin DOMAIN m.tab THEN {}
    ELSE UNION {LET t == p2v(PTE_ADDR(m.tab[pgdir][i]))
                IN  IF t \notin DOMAIN m.tab THEN {}
                    ELSE {<<i * MBYTE + j * PGSIZE, m.tab[t][j]>> :
                             j \in DOMAIN m.tab[t]} :
                i \in DOMAIN m.tab[pgdir]}
MappedAt(m, pgdir) == {e[1] : e \in Mapped(m, pgdir)}

\* The frames that hold a directory or a page table, and the other frames
\* taken from the allocator: the user pages.
TableFrames(m) ==
    {m.pgdir[d] : d \in Dirs} \cup
    UNION {{p2v(PTE_ADDR(m.tab[t][i])) : i \in DOMAIN m.tab[t]} :
              t \in ({m.pgdir[d] : d \in Dirs} \cup {kpgdir}) \ {0}}
UserFrames(m) == {f \in Frames : m.use[f] # "free"} \ TableFrames(m)

\* The page addresses of [PG_ROUND_UP(oldsz), newsz).
PagesOf(oldsz, newsz) ==
    {a \in {PG_ROUND_UP(oldsz) + k * PGSIZE : k \in 0..NFrames} : a < newsz}

\* allocuvm has grown the address space: every page of the range has a
\* page of its own, taken from the free list by this call, zeroed and
\* mapped with the attributes of user memory.
Grown(pgdir, oldsz, newsz) ==
    /\ (newsz - PG_ROUND_UP(oldsz)) \div PGSIZE < NFrames
    /\ \A a \in PagesOf(oldsz, newsz) :
          LET w == PteOf(mmu', pgdir, a)
              f == p2v(PTE_ADDR(w))
          IN  /\ w # 0
              /\ PTE_FLAGS(w) = UVM_PTX_ATRB
              /\ f \in Frames /\ mmu.use[f] = "free" /\ mmu'.data[f] = "zero"
              /\ \A b \in PagesOf(oldsz, newsz) \ {a} :
                     PTE_ADDR(PteOf(mmu', pgdir, b)) # PTE_ADDR(w)
    /\ \A e \in Mapped(mmu, pgdir) : e \in Mapped(mmu', pgdir)

\* C22: allocuvm(pgdir, oldsz, newsz), called with oldsz < USERBOUND and no
\* page mapped at or above oldsz, and returning at all, is all-or-nothing.  With
\* oldsz < newsz < USERBOUND it either returns newsz with every page of
\* [PG_ROUND_UP(oldsz), newsz) mapped user read-write to a fresh zeroed
\* page of its own, or returns 0 with the mapped user pages and the user
\* pages held from the allocator as they were before the call, whichever
\* allocation fails.  With newsz >= USERBOUND it returns 0, with
\* newsz <= oldsz it returns oldsz, and changes nothing.
C22_AllOrNothing ==
    [][(Runs("allocuvm") /\ mmu'.halt = "none") =>
          LET pgdir == mmu.pgdir[1]
              oldsz == mmu.call.x
              newsz == mmu.call.y
              ret == mmu'.res.ret
              same == /\ Mapped(mmu', pgdir) = Mapped(mmu, pgdir)
                      /\ UserFrames(mmu') = UserFrames(mmu)
          IN  (oldsz < USERBOUND /\ \A a \in MappedAt(mmu, pgdir) : a < oldsz) =>
                /\ (oldsz < newsz /\ newsz < USERBOUND) =>
                      \/ ret = newsz /\ Grown(pgdir, oldsz, newsz)
                      \/ ret = 0 /\ same
                /\ newsz >= USERBOUND =>
                      ret = 0 /\ same /\ mmu'.use = mmu.use
                /\ newsz <= oldsz =>
                      ret = oldsz /\ same /\ mmu'.use = mmu.use]_vars

(* ------------------------------ C23 ----------------------------------- *)

\* C23: deallocuvm(pgdir, oldsz, newsz) with newsz < oldsz, for any layout
\* of present and absent directory words, frees the page of every address
\* mapped in [PG_ROUND_UP(newsz), oldsz) and zeroes its page table word (an
\* absent directory word makes it pass over no mapped page), leaves the
\* mappings below PG_ROUND_UP(newsz) as they were, and returns newsz; with
\* newsz >= oldsz it changes nothing and returns oldsz.
C23_DeallocRange ==
    [][(Runs("deallocuvm") /\ mmu'.halt = "none") =>
          LET pgdir == mmu.pgdir[1]
              oldsz == mmu.call.x
              newsz == mmu.call.y
          IN  /\ newsz < oldsz =>
                    /\ \A e \in Mapped(mmu, pgdir) :
                          IF PG_ROUND_UP(newsz) <= e[1] /\ e[1] < oldsz
                          THEN /\ PteOf(mmu', pgdir, e[1]) = 0
                               /\ mmu'.use[p2v(PTE_ADDR(e[2]))] = "free"
                          ELSE e[1] < PG_ROUND_UP(newsz) =>
                                   e \in Mapped(mmu', pgdir)
                    /\ mmu'.res.ret = newsz
              /\ newsz >= oldsz =>
                    /\ mmu'.tab = mmu.tab /\ mmu'.use = mmu.use
                    /\ mmu'.res.ret = oldsz]_vars

(* ------------- address spaces of processes: proc.c and vm.c ------------ *)

\* Values of n passed to growproc.
GrowSizes == {1, PGSIZE, 0 - 1, 0 - PGSIZE, 0 - (2 * PGSIZE), USERBOUND}

\* The sizes asked for are at most one byte off a page boundary, or out of
\* range.
NearPage(sz) == sz < 0 \/ sz >= USERBOUND \/ sz % PGSIZE \in {0, 1, PGSIZE - 1}

\* A process is about to build the first address space (userinit, with
\* memory to spare), to grow or shrink its own (sbrk), to copy it for a
\* child (fork), or to free that of a child it has waited for (wait).
UvmCall ==
    \/ /\ Idle /\ \A d \in Dirs : mmu.pgdir[d] = 0
       /\ UsedFrames = {}
       /\ Call("userinit", 1, 0, 0, 0, 3)
    \/ \E d \in Dirs, n \in GrowSizes, b \in Budgets(NFrames) :
           /\ Idle /\ mmu.pgdir[d] # 0
           /\ n > 0 /\ n < USERBOUND => mmu.sz[d] + n <= MaxPages * PGSIZE
           /\ NearPage(mmu.sz[d] + n)
           /\ Call("growproc", d, n, 0, 0, b)
    \/ \E d \in Dirs, e \in Dirs \ {1}, b \in Budgets(NFrames) :
           /\ Idle /\ mmu.pgdir[d] # 0 /\ mmu.pgdir[e] = 0
           /\ Call("fork", e, d, 0, 0, b)
    \/ \E d \in Dirs \ {1} :
           /\ Idle /\ mmu.pgdir[d] # 0
           /\ Call("wait", d, 0, 0, 0, 0)

\* userinit: p->pgdir = setupkvm(); inituvm(p->pgdir, initcode, size);
\* p->sz = PGSIZE
UvmInit ==
    /\ Called("userinit")
    /\ LET d == mmu.call.dir
           sized(m2) == IF Running_vm(m2) THEN [m2 EXCEPT !.sz[d] = PGSIZE]
                        ELSE m2
           dir(m1) == IF m1.r = 0 THEN vm_panic(m1, "userinit: out of memory?")
                      ELSE sized(inituvm([m1 EXCEPT !.pgdir[d] = m1.r], m1.r, 1))
       IN  Return(dir(setupkvm(Begin)), d)

\* growproc(n) by the process d
UvmGrow ==
    /\ Called("growproc")
    /\ Return(growproc(Begin, mmu.call.dir, mmu.call.x), mmu.call.dir)

\* fork by the process x: np->pgdir = copyuvm(curr_proc->pgdir,
\* curr_proc->sz); np->sz = curr_proc->sz
UvmFork ==
    /\ Called("fork")
    /\ LET e == mmu.call.dir
           d == mmu.call.x
           copied(m) == IF Running_vm(m) /\ m.r # 0
                        THEN [m EXCEPT !.pgdir[e] = m.r, !.sz[e] = mmu.sz[d]]
                        ELSE m
       IN  Return(copied(copy_uvm(Begin, mmu.pgdir[d], mmu.sz[d])), e)

\* wait finds the process d a ZOMBIE: freevm(p->pgdir); p->state = UNUSED.
\* The slot has no address space from here on: its stale pgdir and sz are
\* not kept.
UvmFree ==
    /\ Called("wait")
    /\ LET d == mmu.call.dir
           freed(m) == IF Running_vm(m)
                       THEN [m EXCEPT !.pgdir[d] = 0, !.sz[d] = 0] ELSE m
       IN  Return(freed(free_vm(Begin, mmu.pgdir[d])), d)

UvmNext == UvmCall \/ UvmInit \/ UvmGrow \/ UvmFork \/ UvmFree

UvmSpec == VmInit /\ [][UvmNext]_vars

(* ------------------------------ C24 ----------------------------------- *)

\* The frames of the directory pgdir of m: the directory and its tables.
TablesOf(m, pgdir) ==
    IF pgdir \notin Frames THEN {}
    ELSE {pgdir} \cup
         {p2v(PTE_ADDR(m.tab[pgdir][i])) : i \in DOMAIN m.tab[pgdir]}

\* The frames the directory pgdir of m maps user pages to.
PagesMapped(m, pgdir) == {p2v(PTE_ADDR(e[2])) : e \in Mapped(m, pgdir)}

\* What is in memory that the allocator has handed out stays as it is.
MemoryKept ==
    \A f \in Frames :
        mmu.use[f] # "free" =>
            /\ mmu'.use[f] = mmu.use[f]
            /\ mmu'.tab[f] = mmu.tab[f]
            /\ mmu'.data[f] = mmu.data[f]

\* C24: when copyuvm(pgdir, sz) returns a directory, that directory maps
\* exactly the pages of [0, sz); each of them is mapped to a page taken from
\* the allocator by this call, one page per address, with the attribute
\* flags and the contents of the parent's page at that address; the
\* directory and its tables are taken from the allocator by this call too,
\* so that no page and no table is shared with the parent; and the parent's
\* directory, tables and pages are as they were.
C24_DeepCopy ==
    [][(Runs("fork") /\ mmu'.halt = "none" /\ mmu'.res.ret # 0) =>
          LET pgdir == mmu.pgdir[mmu.call.x]
              sz == mmu.sz[mmu.call.x]
              d == mmu'.res.ret
          IN  /\ d \in Frames /\ mmu'.pgdir[mmu.call.dir] = d
              /\ MappedAt(mmu', d) = PagesOf(0, sz)
              /\ \A a \in PagesOf(0, sz) :
                    LET w == PteOf(mmu', d, a)
                        v == PteOf(mmu, pgdir, a)
                        f == p2v(PTE_ADDR(w))
                    IN  /\ f \in Frames /\ mmu.use[f] = "free"
                        /\ mmu'.use[f] # "free"
                        /\ PTE_FLAGS(w) = PTE_FLAGS(v)
                        /\ mmu'.data[f] = mmu.data[p2v(PTE_ADDR(v))]
                        /\ \A b \in PagesOf(0, sz) \ {a} :
                               PTE_ADDR(PteOf(mmu', d, b)) # PTE_ADDR(w)
              /\ \A t \in TablesOf(mmu', d) :
                    t \in Frames /\ mmu.use[t] = "free"
              /\ PagesMapped(mmu', d) \cap PagesMapped(mmu', pgdir) = {}
              /\ TablesOf(mmu', d) \cap TablesOf(mmu', pgdir) = {}
              /\ Mapped(mmu', pgdir) = Mapped(mmu, pgdir)
              /\ MemoryKept]_vars

\* fork has copied an address space of two pages: the first program and
\* a page from sbrk.
C24_Witness ==
    /\ mmu.res.op = "fork" /\ mmu.res.ret # 0 /\ mmu.halt = "none"
    /\ mmu.pgdir[2] = mmu.res.ret /\ mmu.sz[2] = 2 * PGSIZE
    /\ PteOf(mmu, mmu.pgdir[2], 0) # 0
    /\ PteOf(mmu, mmu.pgdir[2], PGSIZE) # 0
    /\ mmu.data[p2v(PTE_ADDR(PteOf(mmu, mmu.pgdir[2], 0)))] = "init"
    /\ mmu.data[p2v(PTE_ADDR(PteOf(mmu, mmu.pgdir[2], PGSIZE)))] = "zero"

(* ------------------------------ C25 ----------------------------------- *)

\* The pages copyuvm(pgdir, sz) takes from the allocator when nothing fails:
\* the directory, a page table for every directory word of [0, sz) and a
\* page for every page of [0, sz).
CopyNeeds(sz) ==
    1 + Cardinality({PDX(a) : a \in PagesOf(0, sz)})
      + Cardinality(PagesOf(0, sz))

\* C25: when the free list runs out during copyuvm(pgdir, sz), whether for
\* the directory, for a user page or for a page table, copyuvm returns 0;
\* and when it returns 0 the pages on the free list are those that were on
\* it before the call, and the parent's directory, tables and pages are as
\* they were.
C25_CopyFails ==
    [][(Runs("fork") /\ mmu'.halt = "none") =>
          LET pgdir == mmu.pgdir[mmu.call.x]
              sz == mmu.sz[mmu.call.x]
          IN  /\ mmu.call.b < CopyNeeds(sz) => mmu'.res.ret = 0
              /\ mmu'.res.ret = 0 =>
                    /\ FreeFrames(mmu') = FreeFrames(mmu)
                    /\ mmu'.res.bad = {}
                    /\ Mapped(mmu', pgdir) = Mapped(mmu, pgdir)
                    /\ MemoryKept]_vars

(* ------------------------------ C26 ----------------------------------- *)

\* C26: freevm(pgdir) gives back to the allocator every page the directory
\* owns, each of them once: after it returns, every page the directory
\* mapped, every page table of the directory and the directory itself are
\* on the free list, no page was freed twice, and no page that was taken
\* from the allocator by setupkvm or allocuvm for this directory, in any
\* sequence of calls of allocuvm and deallocuvm, is still in use.
C26_FreeAll ==
    [][(Runs("freevm") /\ mmu'.halt = "none") =>
          LET pgdir == mmu.pgdir[mmu.call.dir]
          IN  /\ \A f \in PagesMapped(mmu, pgdir) \cup TablesOf(mmu, pgdir) :
                     f \in Frames /\ mmu'.use[f] = "free"
              /\ mmu'.res.bad = {}
              /\ \A f \in Frames :
                     mmu.own[f] = mmu.call.dir => mmu'.use[f] = "free"]_vars

(* ------------------------------ C27 ----------------------------------- *)

\* The processes that have an address space.
Procs == {d \in Dirs : mmu.pgdir[d] # 0}

\* The user virtual addresses the process d has mapped: every byte of
\* every page its directory maps.
AddrsOf(d) ==
    UNION {a..(a + PGSIZE - 1) : a \in MappedAt(mmu, mmu.pgdir[d])}

\* C27: in every reachable state, after any sequence of userinit, fork and
\* growproc with positive and negative n, page multiples or not, every user
\* virtual address mapped in the directory of a process is below the size of
\* the process and below USERBOUND.
C27_MappedBelowSz ==
    \A d \in Procs : \A va \in AddrsOf(d) : va < mmu.sz[d] /\ va < USERBOUND

(* ---- guard pages, copies to user space, program loading: vm.c ---------- *)

\* Frames in use at one time while these functions are called.
PteFrames == 4

\* What the read of the word at a null pointer may give: a data abort
\* (below zero here), zero, a word without user permission, a word with it.
NullReads ==
    {0 - 1, 0, BitClear(UVM_PTX_ATRB, PTX_ATRB_AP(PTX_ATRB_UAP)),
     BitOr(v2p(1), UVM_PTX_ATRB)}

\* clearpteu(pgdir, uva)
clearpteu(m, pgdir, uva) ==
    LET clear(m1) ==
            IF m1.pte = NoPte THEN vm_panic(m1, "clearpteu")
            ELSE Assign(m1, m1.pte,
                        BitClear(Deref(m1, m1.pte),
                                 PTX_ATRB_AP(PTX_ATRB_UAP)))
    IN  clear(walkpgdir(m, pgdir, uva, UVM_PDX_ATRB, FALSE))

\* uva2ka(pgdir, uva); the pointer walkpgdir returns is read unchecked, and
\* ub is what the read gives when the pointer is null.  A data abort in the
\* kernel ends in panic("trap").
uva2ka(m, pgdir, uva, ub) ==
    LET test(m1, w) ==
            IF w < 0 THEN vm_panic(m1, "trap")
            ELSE IF w = 0 THEN [m1 EXCEPT !.r = 0]
            ELSE IF BitAnd(w, PTX_ATRB_AP(PTX_ATRB_UAP)) = 0
                 THEN [m1 EXCEPT !.r = 0]
            ELSE [m1 EXCEPT !.r = p2v(PTE_ADDR(w))]
        read(m1) == test(m1, IF m1.pte = NoPte THEN ub ELSE Deref(m1, m1.pte))
    IN  read(walkpgdir(m, pgdir, uva, UVM_PDX_ATRB, FALSE))

\* A write of the kernel to the page f: into a user page, or anywhere else.
write_page(m, f, what) ==
    IF f \in Frames /\ m.use[f] # "free" /\ f \notin TableFrames(m)
    THEN [m EXCEPT !.data[f] = what]
    ELSE [m EXCEPT !.bad = @ \cup {"wild write"}]

\* copyout(pgdir, va, p, len)
RECURSIVE copy_out(_, _, _, _, _)
copy_out(m, pgdir, va, len, ub) ==
    LET va0 == PG_ROUND_DOWN(va)
        room == PGSIZE - (va - va0)
        n == IF room > len THEN len ELSE room
        move(m1) ==
            IF ~Running_vm(m1) THEN m1
            ELSE IF m1.r = 0 THEN [m1 EXCEPT !.r = 0 - 1]
            ELSE copy_out(write_page(m1, m1.r, "out"), pgdir,
                          U32(va0 + PGSIZE), len - n, ub)
    IN  IF ~(len > 0) THEN [m EXCEPT !.r = 0]
        ELSE move(uva2ka(m, pgdir, va0, ub))

\* The loop of loaduvm (vm.c:242-252); short counts the reads of the inode
\* down to the one that comes back short (none when it is 0).
RECURSIVE load_loop(_, _, _, _, _, _)
load_loop(m, pgdir, addr, i, sz, short) ==
    LET read(m1) ==
            IF m1.pte = NoPte
            THEN vm_panic(m1, "loaduvm: address should exist")
            ELSE IF short = 1
            THEN [write_page(m1, p2v(PTE_ADDR(Deref(m1, m1.pte))), "file")
                     EXCEPT !.r = 0 - 1]
            ELSE load_loop(
                     write_page(m1, p2v(PTE_ADDR(Deref(m1, m1.pte))), "file"),
                     pgdir, addr, U32(i + PGSIZE), sz,
                     IF short = 0 THEN 0 ELSE short - 1)
    IN  IF ~(i < sz) THEN [m EXCEPT !.r = 0]
        ELSE read(walkpgdir(m, pgdir, U32(addr + i), UVM_PDX_ATRB, FALSE))

loaduvm(m, pgdir, addr, sz, short) ==
    IF addr % PGSIZE # 0
    THEN vm_panic(m, "loaduvm: addr must be page aligned")
    ELSE IF U32(addr + sz) > USERBOUND
    THEN vm_panic(m, "loaduvm: user address space exceeds the allowed space")
    ELSE load_loop(m, pgdir, addr, 0, sz, short)

PteSizes == {0, PGSIZE, 2 * PGSIZE}
PteVas == {0, PGSIZE, MBYTE}
LoadVas == {0, 1, PGSIZE, MBYTE, USERBOUND - PGSIZE}
LoadSizes == {1, PGSIZE + 1}

\* A caller is about to build a small address space or to use one of
\* clearpteu, uva2ka, copyout and loaduvm on it.
PteCall ==
    \/ \E b \in Budgets(PteFrames) :
           Idle /\ mmu.pgdir[1] = 0 /\ Call("setupkvm", 1, 0, 0, 0, b)
    \/ \E oldsz \in PteSizes, newsz \in PteSizes, b \in Budgets(PteFrames) :
           /\ Idle /\ mmu.pgdir[1] # 0 /\ oldsz < newsz
           /\ MappedAt(mmu, mmu.pgdir[1]) = PagesOf(0, oldsz)
           /\ Call("allocuvm", 1, oldsz, newsz, 0, b)
    \/ \E va \in PteVas :
           Idle /\ mmu.pgdir[1] # 0 /\ Call("clearpteu", 1, va, 0, 0, 0)
    \/ \E va \in PteVas, ub \in NullReads :
           Idle /\ mmu.pgdir[1] # 0 /\ Call("uva2ka", 1, va, 0, ub, 0)
    \/ \E va \in {0, PGSIZE - 1, MBYTE}, len \in {1, 2}, ub \in NullReads :
           Idle /\ mmu.pgdir[1] # 0 /\ Call("copyout", 1, va, len, ub, 0)
    \/ \E addr \in LoadVas, sz \in LoadSizes, short \in 0..2 :
           Idle /\ mmu.pgdir[1] # 0 /\ Call("loaduvm", 1, addr, sz, short, 0)

PteClear ==
    /\ Called("clearpteu")
    /\ Return(clearpteu(Begin, mmu.pgdir[mmu.call.dir], mmu.call.x),
              mmu.call.dir)

PteUva2ka ==
    /\ Called("uva2ka")
    /\ Return(uva2ka(Begin, mmu.pgdir[mmu.call.dir], mmu.call.x, mmu.call.z),
              mmu.call.dir)

PteCopyout ==
    /\ Called("copyout")
    /\ Return(copy_out(Begin, mmu.pgdir[mmu.call.dir], mmu.call.x, mmu.call.y,
                       mmu.call.z),
              mmu.call.dir)

PteLoad ==
    /\ Called("loaduvm")
    /\ Return(loaduvm(Begin, mmu.pgdir[mmu.call.dir], mmu.call.x, mmu.call.y,
                      mmu.call.z),
              mmu.call.dir)

PteNext ==
    PteCall \/ VmSetup \/ VmAlloc \/ PteClear \/ PteUva2ka \/ PteCopyout
        \/ PteLoad

PteSpec == VmInit /\ [][PteNext]_vars

(* ------------------------------ C28 ----------------------------------- *)

\* The word w maps a page that user code may access.
UserWord(w) == w # 0 /\ BitAnd(w, PTX_ATRB_AP(PTX_ATRB_UAP)) # 0

\* Every bit of the access permissions of a page table word.
AP_BITS == PTX_ATRB_AP(PTX_ATRB_URW)

\* The page tables and the pages are as they were.
TablesKept ==
    mmu'.tab = mmu.tab /\ mmu'.use = mmu.use /\ mmu'.data = mmu.data

\* C28: uva2ka(pgdir, uva) returns the kernel address of the page when the
\* page table word of uva exists, is not zero and has user permission; when
\* the directory word is absent, the page table word is zero or clearpteu
\* has taken the user permission away it returns 0; either way it changes
\* nothing.  copyout to an address whose page is not of the first kind
\* returns -1.  clearpteu(pgdir, uva) changes the permission bits of the
\* word of uva and nothing else, and the page is then one uva2ka refuses.
C28_Uva2ka ==
    [][LET pgdir == mmu.pgdir[mmu.call.dir]
           w == PteOf(mmu, pgdir, mmu.call.x)
       IN  /\ Runs("uva2ka") =>
                 /\ mmu'.halt = "none" /\ TablesKept
                 /\ mmu'.res.ret = IF UserWord(w) THEN p2v(PTE_ADDR(w)) ELSE 0
           /\ (Runs("copyout") /\ ~UserWord(w)) =>
                 /\ mmu'.halt = "none" /\ TablesKept /\ mmu'.res.bad = {}
                 /\ mmu'.res.ret = 0 - 1
           /\ (Runs("clearpteu") /\ mmu'.halt = "none") =>
                 LET v == PteOf(mmu', pgdir, mmu.call.x)
                 IN  /\ BitClear(v, AP_BITS) = BitClear(w, AP_BITS)
                     /\ ~UserWord(v)
                     /\ \A a \in MappedAt(mmu, pgdir) \ {mmu.call.x} :
                            PteOf(mmu', pgdir, a) = PteOf(mmu, pgdir, a)
                     /\ mmu'.tab[pgdir] = mmu.tab[pgdir]
                     /\ mmu'.use = mmu.use /\ mmu'.data = mmu.data]_vars

(* ------------------------------ C29 ----------------------------------- *)

\* The pages loaduvm(pgdir, addr, ip, offset, sz) reads into.
LoadPages(addr, sz) == {a \in {addr, addr + PGSIZE} : a < addr + sz}

\* C29: loaduvm(pgdir, addr, ip, offset, sz) panics when addr is not page
\* aligned, when addr + sz is above USERBOUND, and when a page of
\* [addr, addr + sz) has no mapping in pgdir, its directory word absent or
\* its page table word zero, unless a short read has ended the call
\* before that page; and it never has the inode read into anything but a
\* page the directory maps.
C29_LoadPanics ==
    [][Runs("loaduvm") =>
          LET pgdir == mmu.pgdir[mmu.call.dir]
              addr == mmu.call.x
              sz == mmu.call.y
              short == mmu.call.z
              read == IF short = 0 THEN LoadPages(addr, sz)
                      ELSE {a \in LoadPages(addr, sz) :
                               a < addr + short * PGSIZE}
          IN  /\ addr % PGSIZE # 0 => mmu'.halt # "none"
              /\ addr + sz > USERBOUND => mmu'.halt # "none"
              /\ (\E a \in read : PteOf(mmu, pgdir, a) = 0) =>
                     mmu'.halt # "none"
              /\ mmu'.res.bad = {}]_vars

(* ------------------------------ C30 ----------------------------------- *)

\* An undefined instruction, prefetch abort or data abort while the CPU runs
\* kernel code, in a system call, in a trap handler or in the scheduler: the
\* SPSR of the trapframe does not say user mode.
BadTrapKernel ==
    /\ panicked = "none"
    /\ ~\E p \in Slots : Running(p) /\ kctx[p].pc = "user"
    /\ Commit(trap_tail(handle_bad_trap([St EXCEPT !.cpsr_I = TRUE], FALSE),
                        FALSE, FALSE))

TrapNext == Next \/ BadTrapKernel

TrapSpec == Init /\ [][TrapNext]_vars

\* C30 as stated: a bad trap from user mode sets killed and the process
\* becomes ZOMBIE before control returns to user mode; a bad trap from
\* kernel mode or with no current process ends in panic "trap".
C30_BadTrapZombie ==
    [][/\ BadTrap =>
              /\ proc'[cpus.proc].killed = 1
              /\ proc'[cpus.proc].state = "ZOMBIE"
       /\ BadTrapKernel => panicked' = "trap"]_vars

\* C30, amended: a bad trap from user mode sets killed on the current
\* process; a process other than the first becomes ZOMBIE in the same trap
\* and is not in user mode afterwards, while for the first process the
\* kernel halts with panic "init exiting"; a bad trap from kernel mode or
\* with no current process halts the kernel with panic "trap".
C30_BadTrap ==
    [][/\ BadTrap =>
              /\ proc'[cpus.proc].killed = 1
              /\ cpus.proc # init_proc =>
                     /\ panicked' = "none"
                     /\ proc'[cpus.proc].state = "ZOMBIE"
                     /\ kctx'[cpus.proc].pc # "user"
              /\ cpus.proc = init_proc => panicked' = "init exiting"
       /\ BadTrapKernel => panicked' = "trap"]_vars


\* The kernel has halted on a trap of its own after a process other than
\* the first was killed and became a ZOMBIE.
C30_Witness ==
    /\ panicked = "trap"
    /\ \E p \in Slots :
           p # init_proc /\ proc[p].state = "ZOMBIE" /\ proc[p].killed = 1

(* ------------------- timer interrupt in user mode ---------------------- *)

\* Slot p has given up the CPU in the yield() of a timer interrupt that was
\* taken in user mode, and has not been switched to since.
YieldedFromUser(p) == kctx[p].ctx = "yield" /\ kctx[p].pc = "user"

SbrkPages == 3

\* Values of n passed to sbrk.
SbrkSizes == {1, PGSIZE, 2 * PGSIZE, 0 - 1, 0 - PGSIZE, 0 - (2 * PGSIZE),
              USERBOUND}

\* sys_sbrk: addr = curr_proc->sz; if(growproc(n) < 0) return -1; return addr
\* (the same in both variants of sysproc.c).
sys_sbrk(m, d, n) ==
    LET ret(m1, addr) ==
            IF ~Running_vm(m1) THEN m1
            ELSE IF m1.r < 0 THEN [m1 EXCEPT !.r = 0 - 1]
            ELSE [m1 EXCEPT !.r = addr]
    IN  ret(growproc(m, d, n), m.sz[d])

\* The first process is built (userinit, with memory to spare), or calls
\* sbrk(n) with b pages left on the free list.
SbrkCall ==
    \/ /\ Idle /\ mmu.pgdir[1] = 0
       /\ UsedFrames = {}
       /\ Call("userinit", 1, 0, 0, 0, 3)
    \/ \E n \in SbrkSizes, b \in Budgets(NFrames) :
           /\ Idle /\ mmu.pgdir[1] # 0
           /\ n > 0 /\ n < USERBOUND => mmu.sz[1] + n <= SbrkPages * PGSIZE
           /\ NearPage(mmu.sz[1] + n)
           /\ Call("sbrk", 1, n, 0, 0, b)

SbrkRun ==
    /\ Called("sbrk")
    /\ Return(sys_sbrk(Begin, mmu.call.dir, mmu.call.x), mmu.call.dir)

SbrkNext == SbrkCall \/ UvmInit \/ SbrkRun

SbrkSpec == VmInit /\ [][SbrkNext]_vars

\* sbrk(n) has shrunk the address space to newsz: every page mapped at or
\* above the new size is back with the allocator and its table word is
\* zero, the pages below are mapped as before.
Shrunk(pgdir, newsz) ==
    \A e \in Mapped(mmu, pgdir) :
        IF e[2] # 0 /\ e[1] >= PG_ROUND_UP(newsz)
        THEN /\ PteOf(mmu', pgdir, e[1]) = 0
             /\ mmu'.use[p2v(PTE_ADDR(e[2]))] = "free"
        ELSE PteOf(mmu', pgdir, e[1]) = e[2]

\* C32: sbrk(n) returns the size of the process before the call, or -1;
\* when it does not return -1 the size is the old size plus n, a growth has
\* mapped a fresh zeroed user read-write page for every page of the added
\* range, a shrinkage has freed the pages above the new size and zeroed
\* their table words.  From a size of 4096 sbrk(8192) returns 4096 and
\* leaves a size of 12288 with three pages mapped, and sbrk(-4096) then
\* returns 12288 and leaves 8192 with the top page back with the allocator.
C32_Sbrk ==
    [][(Runs("sbrk") /\ mmu'.halt = "none") =>
          LET d == mmu.call.dir
              n == mmu.call.x
              pgdir == mmu.pgdir[d]
              old == mmu.sz[d]
              ret == mmu'.res.ret
          IN  /\ ret = old \/ ret = 0 - 1
              /\ ret = old =>
                    /\ mmu'.sz[d] = old + n
                    /\ n > 0 => Grown(pgdir, old, old + n)
                    /\ n < 0 => IF old + n < 0 THEN FALSE
                                ELSE Shrunk(pgdir, old + n)
              /\ (ret = old /\ old = PGSIZE /\ n = 2 * PGSIZE
                    /\ PteOf(mmu, pgdir, 0) # 0) =>
                    /\ ret = 4096 /\ mmu'.sz[d] = 12288
                    /\ {a \in MappedAt(mmu', pgdir) :
                           PteOf(mmu', pgdir, a) # 0}
                         = {0, PGSIZE, 2 * PGSIZE}
              /\ (ret = old /\ old = 3 * PGSIZE /\ n = 0 - PGSIZE
                    /\ PteOf(mmu, pgdir, 2 * PGSIZE) # 0) =>
                    /\ ret = 12288 /\ mmu'.sz[d] = 8192
                    /\ mmu'.use[p2v(PTE_ADDR(PteOf(mmu, pgdir, 2 * PGSIZE)))]
                         = "free"]_vars

(* --------------- sys_sleep, the second variant of sysproc.c ------------ *)

\* The tick counter is kept modulo WideTicks where the second variant of
\* sys_sleep runs, and the variant is called with 1..WideSleep.
WideTicks == 4
WideSleep == 2

\* timer3intr with the counter modulo WideTicks.
timer3intr_wide(s) ==
    IF ~Ok(s) THEN s
    ELSE LET s1 == acquire(s, "ticks")
             s2 == IF Ok(s1)
                   THEN [s1 EXCEPT !.ticks = (@ + 1) % WideTicks]
                   ELSE s1
         IN  release(wakeup(s2, ticks_chan), "ticks")

trap_irq_wide(s) ==
    LET c == curr_proc(s)
        user == c # 0 /\ s.kctx[c].pc = "user"
        s0 == IF user
              THEN [s EXCEPT !.proc[c].tf = switchtosvc(do_irq(backtouser(@)))]
              ELSE s
        s1 == timer3intr_wide([s0 EXCEPT !.cpsr_I = TRUE])
    IN  trap_tail(s1, user, TRUE)

TimerIRQ_wide ==
    /\ panicked = "none"
    /\ ~cpsr_I
    /\ sctx.pc \notin {"userinit", "userinit2"}
    /\ sctx.pc = "switched" => /\ cpus.proc # 0
                               /\ kctx[cpus.proc].ctx = "none"
    /\ Commit(trap_irq_wide(St))

\* The value of ticks - (ticks0 < n), an unsigned difference.
sleep_test_1(now, ticks0, n) ==
    (now - (IF ticks0 < n THEN 1 ELSE 0)) % WideTicks

\* One test of while (ticks - (ticks0 < n)), ticks_lock held.  The process
\* either returns or has decided to sleep and is about to call sleep().
sys_sleep_loop_1(s) ==
    IF ~Ok(s) THEN s
    ELSE LET c == curr_proc(s)
         IN  IF sleep_test_1(s.ticks, s.kctx[c].ticks0, s.kctx[c].n) # 0
             THEN IF s.proc[c].killed # 0
                  THEN syscall_ret(release(s, "ticks"), 0 - 1)
                  ELSE [s EXCEPT !.kctx[c].pc = "sys_sleep"]
             ELSE syscall_ret(release(s, "ticks"), 0)

sys_sleep_1(s, n) ==
    LET c == curr_proc(s)
        s1 == acquire(s, "ticks")
    IN  IF ~Ok(s1) THEN s1
        ELSE sys_sleep_loop_1([s1 EXCEPT !.kctx[c].ticks0 = s1.ticks,
                                         !.kctx[c].n = n])

SysSleep_1 ==
    \E p \in Slots, n \in 1..WideSleep :
        /\ InSyscall(p, SYS_sleep)
        /\ Commit(sys_sleep_1(St, n))

\* A process switched to in the sleep() of sys_sleep goes on in the loop
\* of the second variant; every other one as in resume.
resume_1(s) ==
    LET c == curr_proc(s)
        k == s.kctx[c]
    IN  IF k.ctx = "sleep" /\ k.pc = "sys_sleep"
        THEN sys_sleep_loop_1(sleep_return(sched_return(s), "ticks"))
        ELSE resume(s)

Resume_1 ==
    /\ panicked = "none"
    /\ sctx.pc = "switched"
    /\ cpus.proc # 0
    /\ kctx[cpus.proc].ctx # "none"
    /\ Commit(resume_1(St))

\* The kernel built with the second variant of sysproc.c.
SleepNext ==
    \/ UserInitAlloc
    \/ UserInitFinish
    \/ SchedSti
    \/ SchedAcquire
    \/ SchedDispatch
    \/ SchedRelease
    \/ Resume_1
    \/ TrapRet
    \/ TimerIRQ_wide
    \/ BadTrap
    \/ SysTrap
    \/ SysFork
    \/ ForkFinish
    \/ SysExit
    \/ SysWait
    \/ SysKill
    \/ SysSleep_1
    \/ SysSleepBlock

SleepSpec == Init /\ [][SleepNext]_vars

\* Ticks counted since slot p took ticks0 in sys_sleep.
WideElapsed(p) == (ticks - kctx[p].ticks0) % WideTicks

\* Slot p is in sys_sleep: about to call it, or switched to in its sleep().
AtSleepTest(p) ==
    \/ InSyscall(p, SYS_sleep)
    \/ /\ panicked = "none" /\ sctx.pc = "switched" /\ cpus.proc = p
       /\ kctx[p].ctx = "sleep" /\ kctx[p].pc = "sys_sleep"

\* C33: sys_sleep(n) sleeps for n ticks.  A process that is not killed and
\* comes to the test of the loop (at the call, where no tick has been
\* counted, or at a wakeup) returns 0 when n ticks or more have been
\* counted since the call, and otherwise goes on sleeping; a killed one
\* that comes to the test before that returns -1; whenever sys_sleep
\* returns ticks_lock is released, and the sleep() of the loop releases it.
C33_SleepTicks ==
    /\ [][\A p \in Slots :
             (AtSleepTest(p) /\ panicked' = "none") =>
                 LET slept == IF InSyscall(p, SYS_sleep) THEN FALSE
                              ELSE WideElapsed(p) >= kctx[p].n
                     back == kctx'[p].pc = "user" \/ proc'[p].state = "ZOMBIE"
                 IN  /\ slept =>
                        /\ back
                        /\ proc'[p].tf.r0 = 0
                     /\ (~slept /\ proc[p].killed = 0) =>
                        /\ ~back
                        /\ kctx'[p].pc = "sys_sleep"
                     /\ (~slept /\ proc[p].killed # 0) =>
                        /\ back
                        /\ proc'[p].tf.r0 = 0 - 1
                     /\ back => lock'["ticks"].locked = 0]_vars
    /\ [][\A p \in Slots :
             (kctx[p].pc = "sys_sleep" /\ proc[p].state = "RUNNING"
                 /\ proc'[p].state = "SLEEPING") =>
                 lock["ticks"].locked = 1 /\ lock'["ticks"].locked = 0]_vars

(* ------------------- no process table slot is lost ---------------------- *)

\* Slot p, in user mode and not killed, has a child to wait for.
CanWait(p) ==
    /\ Running(p)
    /\ kctx[p].pc = "user"
    /\ vm[p].pages > 0
    /\ proc[p].killed = 0
    /\ ZombieChildren(p) # {}

\* Slot p makes the system call wait in this step.
CallsWait(p) ==
    /\ CanWait(p)
    /\ kctx'[p].pc = "syscall"
    /\ proc'[p].tf.r0 = SYS_wait

\* Every parent keeps calling wait: a process that is in user mode with a
\* ZOMBIE child again and again calls wait again and again.
ParentsWait ==
    \A p \in Slots : []<>CanWait(p) => []<><<CallsWait(p)>>_vars

\* next_pid is an int, and next_pid++ at the greatest int gives the least
\* one on this machine: the model keeps the counter in -(PidTop + 1)..PidTop
\* and wraps it the same way.
PidTop == 1
narrow_int(x) == IF x > PidTop THEN x - 2 * (PidTop + 1) ELSE x

\* User code that makes the system calls fork, exit and wait, fork as often
\* as it likes.
SysTrap_few ==
    \E p \in Slots, num \in {SYS_fork, SYS_exit, SYS_wait} :
        /\ Running(p)
        /\ kctx[p].pc = "user"
        /\ vm[p].pages > 0
        /\ Commit(handle_syscall(St, num))

\* fork: allocproc up to the release of ptable.lock, p->pid = next_pid++
\* in the width of the counter.
fork_alloc_int(s) ==
    LET counted(s1) == [s1 EXCEPT !.next_pid = narrow_int(@)]
    IN  counted(fork_alloc(s))

SysFork_int ==
    \E p \in Slots :
        /\ InSyscall(p, SYS_fork)
        /\ Commit(fork_alloc_int(St))

\* userinit: allocproc, with the counter in its width.
UserInitAlloc_int ==
    /\ panicked = "none"
    /\ sctx.pc = "userinit"
    /\ LET claimed(s1) ==
               [s1 EXCEPT !.next_pid = narrow_int(@),
                          !.sctx = [pc |-> "userinit2",
                                    p |-> ClaimedSlot(St, s1)]]
       IN  Commit(claimed(allocproc_claim(St)))

\* The rest of fork, with memory for the copy of the address space; the
\* kernel stack may be missing.
ForkFinish_few ==
    \E p \in Slots, fail \in {"none", "kstack"} :
        /\ Running(p)
        /\ kctx[p].pc = "fork"
        /\ Commit(fork(St, fail))

\* The kernel with processes that fork, exit and wait.
ForkStep ==
    \/ UserInitAlloc_int
    \/ UserInitFinish
    \/ SchedSti
    \/ SchedAcquire
    \/ SchedDispatch
    \/ SchedRelease
    \/ Resume
    \/ TrapRet
    \/ SysFork_int
    \/ ForkFinish_few
    \/ SysExit
    \/ SysWait

ForkNext == ForkStep \/ TimerIRQ \/ SysTrap_few

ForkSpec == Init /\ [][ForkNext]_vars

\* That kernel under a fair CPU and timer, with parents that keep waiting.
\* The steps of the scheduler's own loop are under weak fairness as it is;
\* for the kernel as a whole the weak fairness of ForkStep is written with
\* its enabling condition spelled out, and so is the strong fairness of the
\* timer.
WaitSpec ==
    /\ ForkSpec
    /\ WF_vars(SchedSti \/ SchedAcquire \/ SchedRelease)
    /\ <>[]KernelEnabled => []<><<ForkStep>>_vars
    /\ StrongFairTimer
    /\ ParentsWait

\* C34: no slot of the process table is lost.  With every parent, and init
\* for the children handed over to it, calling wait again and again, every
\* ZOMBIE slot becomes UNUSED (unless the kernel halts in the panic of an
\* exiting init before that); and a slot that fork has made EMBRYO does not
\* stay EMBRYO: when fork returns the slot is RUNNABLE, or UNUSED again if
\* the fork has failed.
C34_NoSlotLost ==
    /\ \A z \in Slots :
          (proc[z].state = "ZOMBIE")
              ~> (proc[z].state = "UNUSED" \/ panicked = "init exiting")
    /\ [][\A c \in Slots :
             ForkEnds(c) =>
                 /\ proc[kctx[c].np].state = "EMBRYO"
                 /\ proc'[kctx[c].np].state \in {"UNUSED", "RUNNABLE"}
                 /\ \A q \in Slots : proc'[q].state # "EMBRYO"]_vars

(* ======================================================================= *)
(* handle_irq and the interrupt controller (trap.c)                        *)
(* ======================================================================= *)

IRQ_TIMER_BIT == 3
IRQ_MINIUART_BIT == 29
\* Bits of the three pending registers that devices can raise: the two
\* sources handle_irq knows, and one more in each register.
UnknownBits0 == {9}
Pending0Bits == {IRQ_TIMER_BIT, IRQ_MINIUART_BIT} \cup UnknownBits0
Pending1Bits == {0}
BasicBits == {0}

IrqFrame ==
    UNCHANGED <<proc, vm, kctx, lock, cpus, cpsr_I, ticks, next_pid,
                init_proc, first_sched, first_proc, sctx, kmem, panicked,
                mmu>>

\* A device raises its interrupt line, at any time.
IrqRaise ==
    /\ \/ \E b \in Pending0Bits \ intc.pending0 :
              intc' = [intc EXCEPT !.pending0 = @ \cup {b}]
       \/ \E b \in Pending1Bits \ intc.pending1 :
              intc' = [intc EXCEPT !.pending1 = @ \cup {b}]
       \/ \E b \in BasicBits \ intc.basic :
              intc' = [intc EXCEPT !.basic = @ \cup {b}]
    /\ IrqFrame

\* A device that handle_irq does not know drops its line by itself.
IrqDrop ==
    /\ \/ \E b \in intc.pending0 \cap UnknownBits0 :
              intc' = [intc EXCEPT !.pending0 = @ \ {b}]
       \/ \E b \in intc.pending1 :
              intc' = [intc EXCEPT !.pending1 = @ \ {b}]
       \/ \E b \in intc.basic :
              intc' = [intc EXCEPT !.basic = @ \ {b}]
    /\ IrqFrame

\* The loop test of handle_irq, reading pending[0] only.
irq_test_0(i) == i.pending0 # {}

\* The loop test of handle_irq.
irq_test(i) == i.pending0 # {} \/ i.pending1 # {} \/ i.basic # {}

\* trap() clears its flag and calls handle_irq.
IrqEnter ==
    /\ intc.pc = "idle"
    /\ irq_test(intc)
    /\ intc' = [intc EXCEPT !.pc = "while", !.is_timer_irq = 0,
                            !.serviced = FALSE]
    /\ IrqFrame

IrqWhile ==
    /\ intc.pc = "while"
    /\ intc' = [intc EXCEPT !.pc = IF irq_test(intc) THEN "if_timer"
                                   ELSE "return"]
    /\ IrqFrame

IrqIfTimer ==
    /\ intc.pc = "if_timer"
    /\ intc' = [intc EXCEPT !.pc = IF IRQ_TIMER_BIT \in intc.pending0
                                   THEN "timer3intr" ELSE "if_uart"]
    /\ IrqFrame

\* timer3intr runs: whether it makes the timer drop its line is not in the
\* sources, so both outcomes are kept.
IrqTimer3intr ==
    /\ intc.pc = "timer3intr"
    /\ \E clears \in BOOLEAN :
           intc' = [intc EXCEPT !.pc = "set_flag", !.serviced = TRUE,
                                !.pending0 = IF clears
                                             THEN @ \ {IRQ_TIMER_BIT} ELSE @]
    /\ IrqFrame

IrqSetFlag ==
    /\ intc.pc = "set_flag"
    /\ intc' = [intc EXCEPT !.pc = "if_uart", !.is_timer_irq = 1]
    /\ IrqFrame

IrqIfUart ==
    /\ intc.pc = "if_uart"
    /\ intc' = [intc EXCEPT !.pc = IF IRQ_MINIUART_BIT \in intc.pending0
                                   THEN "miniuartintr" ELSE "while"]
    /\ IrqFrame

IrqMiniuartintr ==
    /\ intc.pc = "miniuartintr"
    /\ \E clears \in BOOLEAN :
           intc' = [intc EXCEPT !.pc = "while",
                                !.pending0 = IF clears
                                             THEN @ \ {IRQ_MINIUART_BIT}
                                             ELSE @]
    /\ IrqFrame

\* handle_irq has returned and trap() goes on.
IrqLeave ==
    /\ intc.pc = "return"
    /\ intc' = [intc EXCEPT !.pc = "idle"]
    /\ IrqFrame

IrqNext ==
    \/ IrqRaise \/ IrqDrop \/ IrqEnter \/ IrqWhile \/ IrqIfTimer
    \/ IrqTimer3intr \/ IrqSetFlag \/ IrqIfUart \/ IrqMiniuartintr
    \/ IrqLeave

IrqSpec == VmInit /\ [][IrqNext]_vars

InHandleIrq == intc.pc \notin {"idle", "return"}
UnknownPending ==
    \/ intc.pending0 \ {IRQ_TIMER_BIT, IRQ_MINIUART_BIT} # {}
    \/ intc.pending1 # {}
    \/ intc.basic # {}

\* handle_irq is inside its loop with the timer serviced and only a source
\* it does not know left pending.
IrqSpins ==
    /\ intc.pc = "while" /\ intc.serviced /\ UnknownPending
    /\ intc.pending0 \cap {IRQ_TIMER_BIT, IRQ_MINIUART_BIT} = {}

\* C35: handle_irq returns only from a loop test that found irq_pending[0],
\* irq_pending[1] and irq_basic_pending all zero; when it has returned the
\* caller's flag is 1 exactly when the call has called timer3intr, which it
\* does only on finding the timer bit set; and once handle_irq is in its
\* loop with a source other than the timer and the mini-UART pending, it
\* does not return as long as such a source stays pending.
C35_HandleIrq ==
    /\ [][intc.pc # "return" /\ intc'.pc = "return"
            => /\ intc.pending0 = {}
               /\ intc.pending1 = {}
               /\ intc.basic = {}]_vars
    /\ [][intc'.pc = "timer3intr" /\ intc.pc # "timer3intr"
            => IRQ_TIMER_BIT \in intc.pending0]_vars
    /\ [](intc.pc = "return" => (intc.is_timer_irq = 1 <=> intc.serviced))
    /\ []((InHandleIrq /\ UnknownPending)
            => ([]UnknownPending => [](intc.pc # "return")))

\* handle_irq has returned after servicing the timer.
C35_Witness ==
    /\ intc.pc = "return"
    /\ intc.serviced
    /\ intc.is_timer_irq = 1

(* ======================================================================= *)
(* sched() and the saved interrupt-enable flag (proc.c)                    *)
(* ======================================================================= *)

\* The process of slot c stands in sched(), switched out or just switched to.
InSched(c) == kctx[c].ctx \in {"yield", "sleep"}

\* The scheduler has switched to slot c, which goes on after its swtch.
Resumes(c) ==
    /\ panicked = "none"
    /\ sctx.pc = "switched"
    /\ cpus.proc = c
    /\ InSched(c)

\* C36: sched() hands the process back the interrupt-enable flag it called
\* sched() with.  The flag sched() saves is the one of the CPU at the switch
\* to the scheduler; nothing touches the saved flag while the process is
\* switched out; when the process goes on, the CPU's flag is the saved one
\* again (if the process calls sched() once more in the same step, it saves
\* that value again); and the release of ptable.lock that follows the
\* return of sched() in yield and sleep leaves the IRQs enabled exactly when
\* the saved flag is set.
C36_SchedKeepsFlag ==
    /\ [][\A c \in Slots :
            /\ (kctx[c].ctx = "none" /\ kctx'[c].ctx \in {"yield", "sleep"}
                /\ panicked' = "none")
                 => kctx'[c].irq_enabled = cpus'.irq_enabled
            /\ (InSched(c) /\ kctx'[c].ctx = kctx[c].ctx /\ ~Resumes(c))
                 => kctx'[c].irq_enabled = kctx[c].irq_enabled
            /\ (Resumes(c) /\ panicked' = "none")
                 => IF cpus'.proc = c
                    THEN cpus'.irq_enabled = kctx[c].irq_enabled
                    ELSE kctx'[c].irq_enabled = kctx[c].irq_enabled]_vars
    /\ [](\A c \in Slots :
            (Resumes(c) /\ ~(kctx[c].ctx = "sleep" /\ kctx[c].pc = "wait"))
              => LET s1 == release(sched_return(St), "ptable")
                 IN  /\ Ok(s1)
                     /\ s1.cpus.ncli = 0
                     /\ s1.cpsr_I = (kctx[c].irq_enabled = 0))

\* A process is about to go on in sched() after the scheduler has left the
\* CPU's flag different from the one the process saved.
C36_Witness ==
    \E c \in Slots :
        /\ Resumes(c)
        /\ cpus.irq_enabled # kctx[c].irq_enabled

(* ======================================================================= *)
(* The return to user mode                                                 *)
(* ======================================================================= *)

\* The process of slot p runs in user mode.
InUserMode(p) == Running(p) /\ kctx[p].pc = "user"

\* C37: whenever a process is in user mode, ncli is 0 and neither spinlock
\* is held; this holds in particular after each step that takes a process
\* to user mode: trapret after fork_return, the return from a system call,
\* and the return from a timer interrupt after yield() has come back.
C37_UserModeUnlocked ==
    /\ [](\A p \in Slots :
            InUserMode(p) => cpus.ncli = 0 /\ ~LockHeld)
    /\ [][\A p \in Slots :
            (~InUserMode(p) /\ kctx'[p].pc = "user" /\ kctx'[p].ctx = "none"
             /\ cpus'.proc = p /\ panicked' = "none")
              => /\ cpus'.ncli = 0
                 /\ \A lk \in LockNames : lock'[lk].locked = 0]_vars

\* A process is in user mode while another one is switched out inside
\* yield() and a third sleeps: the one in user mode got there through the
\* scheduler after the others had entered the kernel.
C37_Witness ==
    \E p, q, r \in Slots :
        /\ InUserMode(p)
        /\ first_proc = 0
        /\ kctx[q].ctx = "yield"
        /\ kctx[r].ctx = "sleep"

(* ======================================================================= *)
(* kill and the slots that are not in use                                  *)
(* ======================================================================= *)

\* C38: a PCB in state EMBRYO has killed == 0, and kill leaves the killed
\* flag of every UNUSED slot alone, whatever pid it is called with.
C38_EmbryoNotKilled ==
    /\ [](\A p \in Slots : proc[p].state = "EMBRYO" => proc[p].killed = 0)
    /\ [][\A p \in Slots :
            (proc[p].state = "UNUSED" /\ proc'[p].state = "UNUSED")
              => proc'[p].killed = proc[p].killed]_vars

(* ======================================================================= *)
(* growproc that fails                                                     *)
(* ======================================================================= *)

\* The user pages the directory pgdir of m maps, absent entries left out.
Present(m, pgdir) == {e \in Mapped(m, pgdir) : e[2] # 0}

\* C39: whenever growproc(n) returns -1, the size of the process and the
\* user pages its directory maps are what they were before the call.
C39_GrowprocFails ==
    [][(Runs("growproc") /\ mmu'.halt = "none" /\ mmu'.res.ret = 0 - 1) =>
          LET d == mmu.call.dir
          IN  /\ mmu'.sz[d] = mmu.sz[d]
              /\ mmu'.pgdir[d] = mmu.pgdir[d]
              /\ Present(mmu', mmu.pgdir[d]) = Present(mmu, mmu.pgdir[d])]_vars

(* ======================================================================= *)
(* The pids                                                                *)
(* ======================================================================= *)

InUse(p) == proc[p].state # "UNUSED"

\* C40: the pids handed out are positive and strictly increasing in the
\* order of allocation: a slot that becomes used gets the value of next_pid,
\* which is positive and grows by one; so every PCB in use has a positive
\* pid and no two PCBs in use have the same pid.
C40_PidsUnique ==
    /\ [](\A p \in Slots : InUse(p) => proc[p].pid > 0)
    /\ [](\A p, q \in Slots :
            (p # q /\ InUse(p) /\ InUse(q)) => proc[p].pid # proc[q].pid)
    /\ [][next_pid' # next_pid =>
            /\ next_pid > 0
            /\ next_pid' = next_pid + 1
            /\ \A p \in Slots :
                   (~InUse(p) /\ proc'[p].pid # proc[p].pid)
                      => proc'[p].pid = next_pid]_vars

====
